---- MODULE Spec2Model ----
(***************************************************************************)
(* Layout matcher of the manga page layout engine (src/lib/layout/score.py)*)
(*                                                                         *)
(* Python floats are modelled as exact rationals <<numerator, denominator>>*)
(* in lowest terms with a positive denominator; <<0, 0>> stands for the    *)
(* IEEE NaN that 0/0 produces inside box_iou.  Indices are 0-based as in   *)
(* the source.                                                             *)
(***************************************************************************)
EXTENDS Integers, Sequences, FiniteSets, TLC

VARIABLES
    refs,      \* the shared reference layouts (corpus objects), by identity
    call,      \* record of the last calc_similarity call and what it produced
    first,     \* score of the first call made with the probed arguments
    matrix,    \* weight matrix handed directly to solve_bipartite_matching
    solved,    \* what solve_bipartite_matching returned for `matrix`
    roundtrip, \* a layout taken through scale(f) and then scale(1/f)
    sampler,   \* a LayoutGenerator call: its inputs, its loop and its result
    optimizer, \* a LayoutOptimizer call: its inputs and its result
    pipeline   \* a call of a pipeline stage: its inputs and its result

vars ==
    <<refs, call, first, matrix, solved, roundtrip, sampler, optimizer,
      pipeline>>

\* the state of the layout matcher, and the state of everything else
scoreVars == <<refs, call, first, matrix, solved>>
pageVars == <<roundtrip, sampler, optimizer, pipeline>>

----------------------------------------------------------------------------
(* Bounds of the model *)

MaxQueryElems == 2      \* elements per query layout
MaxRefElems == 2        \* elements per reference layout
MaxRows == 2            \* rows of a directly solved weight matrix
MaxCols == 2            \* columns of a directly solved weight matrix
MaxSide == 5            \* width and height of a layout that is rescaled
MaxFactor == 3          \* numerator and denominator of a scale factor
MaxPanels == 3          \* panels of a page given to _random_tree
MaxTrials == 3          \* trials of the Monte Carlo loops
MaxK == 2               \* k of generate_top_k

----------------------------------------------------------------------------
(* Float arithmetic as exact rationals *)

Min(a, b) == IF a <= b THEN a ELSE b
Max(a, b) == IF a >= b THEN a ELSE b
Abs(a) == IF a >= 0 THEN a ELSE -a

RECURSIVE GCD(_, _)
GCD(a, b) == IF b = 0 THEN a ELSE GCD(b, a % b)

Rat(n, d) == LET g == GCD(Abs(n), d) IN <<n \div g, d \div g>>

Zero == <<0, 1>>
One == <<1, 1>>
NaN == <<0, 0>>
IsNaN(x) == x[2] = 0

\* sums and comparisons go through the least common denominator
FAdd(a, b) ==
    IF IsNaN(a) \/ IsNaN(b) THEN NaN
    ELSE LET g == GCD(a[2], b[2])
         IN  Rat(a[1] * (b[2] \div g) + b[1] * (a[2] \div g),
                 (a[2] \div g) * b[2])

FSub(a, b) ==
    IF IsNaN(a) \/ IsNaN(b) THEN NaN
    ELSE LET g == GCD(a[2], b[2])
         IN  Rat(a[1] * (b[2] \div g) - b[1] * (a[2] \div g),
                 (a[2] \div g) * b[2])

FMul(a, b) ==
    IF IsNaN(a) \/ IsNaN(b) THEN NaN
    ELSE Rat(a[1] * b[1], a[2] * b[2])

FNeg(a) == <<-a[1], a[2]>>

\* every comparison with NaN is false
FLt(a, b) ==
    /\ ~IsNaN(a) /\ ~IsNaN(b)
    /\ LET g == GCD(a[2], b[2])
       IN  a[1] * (b[2] \div g) < b[1] * (a[2] \div g)

FLe(a, b) ==
    /\ ~IsNaN(a) /\ ~IsNaN(b)
    /\ LET g == GCD(a[2], b[2])
       IN  a[1] * (b[2] \div g) <= b[1] * (a[2] \div g)

\* int(x) for x = n/d, d > 0: truncation toward zero
IntTrunc(n, d) == IF n >= 0 THEN n \div d ELSE -((-n) \div d)

----------------------------------------------------------------------------
(* LayoutElement and Layout *)

LayoutElement(element_type, bbox) ==
    [element_type |-> element_type, bbox |-> bbox]

get_area(element) ==
    (element.bbox[3] - element.bbox[1]) * (element.bbox[4] - element.bbox[2])

Layout(elements, width, height) ==
    [elements |-> elements, width |-> width, height |-> height]

\* scale with the height computed from the width
scaleHeightFromWidth(layout, scale_factor) ==
    [width    |-> IntTrunc(layout.width * scale_factor[1], scale_factor[2]),
     height   |-> IntTrunc(layout.width * scale_factor[1], scale_factor[2]),
     elements |-> [k \in DOMAIN layout.elements |->
                     [layout.elements[k] EXCEPT !.bbox =
                        [c \in 1..4 |->
                           IntTrunc(@[c] * scale_factor[1], scale_factor[2])]]]]

\* Layout.scale(scale_factor), the factor given as a rational
scale(layout, scale_factor) ==
    [width    |-> IntTrunc(layout.width * scale_factor[1], scale_factor[2]),
     height   |-> IntTrunc(layout.height * scale_factor[1], scale_factor[2]),
     elements |-> [k \in DOMAIN layout.elements |->
                     [layout.elements[k] EXCEPT !.bbox =
                        [c \in 1..4 |->
                           IntTrunc(@[c] * scale_factor[1], scale_factor[2])]]]]

----------------------------------------------------------------------------
(* Matrices: m rows, n columns, entries w[<<i, j>>] with 0-based indices *)

Cells(m, n) == (0..(m - 1)) \X (0..(n - 1))

Zeros(m, n) == [m |-> m, n |-> n, w |-> [p \in Cells(m, n) |-> Zero]]

\* area_matrix = None
NoneMatrix == [m |-> -1, n |-> -1, w |-> [p \in {} |-> Zero]]
IsNone(M) == M.m < 0

\* torchvision.ops.box_iou on one pair of boxes
box_iou(b1, b2) ==
    LET area1 == (b1[3] - b1[1]) * (b1[4] - b1[2])
        area2 == (b2[3] - b2[1]) * (b2[4] - b2[2])
        iw    == Max(0, Min(b1[3], b2[3]) - Max(b1[1], b2[1]))
        ih    == Max(0, Min(b1[4], b2[4]) - Max(b1[2], b2[2]))
        inter == iw * ih
        union == area1 + area2 - inter
    IN  IF union = 0 THEN NaN ELSE Rat(inter, union)

calculate_iou_matrix(elements1, elements2) ==
    LET m == Len(elements1)
        n == Len(elements2)
    IN  IF m = 0 \/ n = 0 THEN Zeros(m, n)
        ELSE [m |-> m, n |-> n,
              w |-> [p \in Cells(m, n) |->
                       box_iou(elements1[p[1] + 1].bbox,
                               elements2[p[2] + 1].bbox)]]

AreaMethods == {"ratio", "log", "hybrid"}

\* AreaSim with min and max exchanged in the ratio
AreaSimInverted(area1, area2, method) ==
    IF area1 <= 0 \/ area2 <= 0 THEN Zero
    ELSE LET ratio_sim == Rat(Max(area1, area2), Min(area1, area2))
             log_sim   == Rat(Min(area1, area2), Max(area1, area2))
         IN  CASE method = "ratio"  -> ratio_sim
               [] method = "log"    -> log_sim
               [] method = "hybrid" -> FMul(ratio_sim, log_sim)
               [] OTHER             -> NaN

\* AreaSim whose guard falls back to 1.0 instead of 0.0
AreaSimFallbackOne(area1, area2, method) ==
    IF area1 <= 0 \/ area2 <= 0 THEN One
    ELSE LET ratio_sim == Rat(Min(area1, area2), Max(area1, area2))
             log_sim   == Rat(Min(area1, area2), Max(area1, area2))
         IN  CASE method = "ratio"  -> ratio_sim
               [] method = "log"    -> log_sim
               [] method = "hybrid" -> FMul(ratio_sim, log_sim)
               [] OTHER             -> NaN

\* one cell of calculate_area_similarity_matrix; exp(-|ln(a1/a2)|) is
\* min(a1, a2) / max(a1, a2)
AreaSim(area1, area2, method) ==
    IF area1 <= 0 \/ area2 <= 0 THEN Zero
    ELSE LET ratio_sim == Rat(Min(area1, area2), Max(area1, area2))
             log_sim   == Rat(Min(area1, area2), Max(area1, area2))
         IN  CASE method = "ratio"  -> ratio_sim
               [] method = "log"    -> log_sim
               [] method = "hybrid" -> FMul(ratio_sim, log_sim)
               [] OTHER             -> NaN

\* calculate_area_similarity_matrix raises ValueError("Unknown area
\* similarity method") at the first cell of two positive areas
AreaRaises(elements1, elements2, method) ==
    /\ method \notin AreaMethods
    /\ \E i \in DOMAIN elements1, j \in DOMAIN elements2 :
          get_area(elements1[i]) > 0 /\ get_area(elements2[j]) > 0

calculate_area_similarity_matrix(elements1, elements2, method) ==
    LET m == Len(elements1)
        n == Len(elements2)
    IN  IF m = 0 \/ n = 0 THEN Zeros(m, n)
        ELSE [m |-> m, n |-> n,
              w |-> [p \in Cells(m, n) |->
                       AreaSim(get_area(elements1[p[1] + 1]),
                               get_area(elements2[p[2] + 1]), method)]]

\* WeightEntry without the type mask
WeightEntryNoMask(e1, e2, iou_weight, area_matrix, area_sim, area_weight) ==
    IF ~IsNone(area_matrix) /\ FLt(Zero, area_weight)
    THEN FAdd(FMul(FSub(One, area_weight), iou_weight),
              FMul(area_weight, area_sim))
    ELSE iou_weight

\* WeightEntry that adds the area term without taking (1 - area_weight) of
\* the IoU
WeightEntryNotConvex(e1, e2, iou_weight, area_matrix, area_sim, area_weight) ==
    IF e1.element_type = e2.element_type
    THEN IF ~IsNone(area_matrix) /\ FLt(Zero, area_weight)
         THEN FAdd(iou_weight, FMul(area_weight, area_sim))
         ELSE iou_weight
    ELSE Zero

\* one entry of the weight matrix
WeightEntry(e1, e2, iou_weight, area_matrix, area_sim, area_weight) ==
    IF e1.element_type = e2.element_type
    THEN IF ~IsNone(area_matrix) /\ FLt(Zero, area_weight)
         THEN FAdd(FMul(FSub(One, area_weight), iou_weight),
                   FMul(area_weight, area_sim))
         ELSE iou_weight
    ELSE Zero

calculate_weight_matrix_with_area(elements1, elements2, iou_matrix, area_matrix, area_weight) ==
    LET m == Len(elements1)
        n == Len(elements2)
    IN  IF m = 0 \/ n = 0 THEN Zeros(m, n)
        ELSE [m |-> m, n |-> n,
              w |-> [p \in Cells(m, n) |->
                       WeightEntry(elements1[p[1] + 1], elements2[p[2] + 1],
                                   iou_matrix.w[p],
                                   area_matrix,
                                   IF IsNone(area_matrix) THEN Zero
                                   ELSE area_matrix.w[p],
                                   area_weight)]]

----------------------------------------------------------------------------
(* solve_bipartite_matching *)

\* Injections that lets two arguments share a value
AnyFunctions(S, T) == [S -> T]

Injections(S, T) ==
    {f \in [S -> T] : \A a, b \in S : a # b => f[a] # f[b]}

\* the complete assignments scipy's linear_sum_assignment ranges over: every
\* row is assigned when m <= n, every column otherwise
Assignments(m, n) ==
    IF m <= n
    THEN {{<<i, f[i]>> : i \in 0..(m - 1)} :
             f \in Injections(0..(m - 1), 0..(n - 1))}
    ELSE {{<<g[j], j>> : j \in 0..(n - 1)} :
             g \in Injections(0..(n - 1), 0..(m - 1))}

RECURSIVE Total(_, _)
Total(M, pairs) ==
    IF pairs = {} THEN Zero
    ELSE LET p == CHOOSE x \in pairs : TRUE
         IN  FAdd(M.w[p], Total(M, pairs \ {p}))

\* linear_sum_assignment(cost_matrix): the assignments of minimal total
\* cost; which of several optimal ones scipy returns is not specified
linear_sum_assignment(cost_matrix) ==
    LET all     == Assignments(cost_matrix.m, cost_matrix.n)
        totals  == {Total(cost_matrix, B) : B \in all}
        minimum == CHOOSE t \in totals : \A u \in totals : FLe(t, u)
    IN  {A \in all : Total(cost_matrix, A) = minimum}

\* (row_indices, col_indices) zipped, rows ascending
RECURSIVE ZipSorted(_)
ZipSorted(pairs) ==
    IF pairs = {} THEN <<>>
    ELSE LET p == CHOOSE x \in pairs : \A y \in pairs : x[1] <= y[1]
         IN  <<p>> \o ZipSorted(pairs \ {p})

\* ValidMatch with >= in place of >
ValidMatchNonStrict(weight) == FLe(Zero, weight)

\* the `weight_matrix[i, j] > 0` test of the accumulation loop
ValidMatch(weight) == FLt(Zero, weight)

\* the accumulation loop over the assigned pairs
RECURSIVE Accumulate(_, _, _, _)
Accumulate(weight_matrix, zipped, total_score, matching_pairs) ==
    IF zipped = <<>>
    THEN [raised |-> FALSE, total_score |-> total_score,
          matching_pairs |-> matching_pairs]
    ELSE IF ValidMatch(weight_matrix.w[Head(zipped)])
         THEN Accumulate(weight_matrix, Tail(zipped),
                         FAdd(total_score, weight_matrix.w[Head(zipped)]),
                         Append(matching_pairs, Head(zipped)))
         ELSE Accumulate(weight_matrix, Tail(zipped),
                         total_score, matching_pairs)

\* CostMatrix without the negation
CostMatrixNotNegated(weight_matrix) == weight_matrix

CostMatrix(weight_matrix) ==
    [weight_matrix EXCEPT !.w = [p \in DOMAIN @ |-> FNeg(@[p])]]

\* the set of results solve_bipartite_matching can return
solve_bipartite_matching(weight_matrix) ==
    IF weight_matrix.m * weight_matrix.n = 0
    THEN {[raised |-> FALSE, total_score |-> Zero, matching_pairs |-> <<>>]}
    ELSE IF \E p \in DOMAIN weight_matrix.w : IsNaN(weight_matrix.w[p])
         THEN {[raised |-> TRUE, total_score |-> Zero,
                matching_pairs |-> <<>>]}
         ELSE {Accumulate(weight_matrix, ZipSorted(A), Zero, <<>>) :
                  A \in linear_sum_assignment(CostMatrix(weight_matrix))}

----------------------------------------------------------------------------
(* calc_similarity *)

\* the aspect ratio check; both heights are non-zero here
AspectDiff(layout1, layout2) ==
    Rat(Abs(layout1.width * layout2.height - layout2.width * layout1.height),
        layout1.height * layout2.height)

\* AspectMismatch with >= in place of >
AspectMismatchNonStrict(layout1, layout2, aspect_ratio_threshold) ==
    FLe(aspect_ratio_threshold, AspectDiff(layout1, layout2))

AspectMismatch(layout1, layout2, aspect_ratio_threshold) ==
    FLt(aspect_ratio_threshold, AspectDiff(layout1, layout2))

\* what a call leaves behind when it stops before any matrix is built
Stopped(stage, raised, layout2, scale_factor) ==
    [stage |-> stage, raised |-> raised, similarity_score |-> Zero,
     matching_pairs |-> <<>>, layout2 |-> layout2,
     scale_factor |-> scale_factor, built |-> FALSE,
     area_matrix |-> NoneMatrix, weight_matrix |-> NoneMatrix]

\* the set of outcomes of calc_similarity(layout1, layout2, ...): the value
\* returned (or the exception), the matching found on the way, and layout2
\* as the call leaves it
calc_similarity(layout1, layout2, aspect_ratio_threshold, use_area, area_weight, area_method) ==
    IF layout1.height = 0 \/ layout2.height = 0
    THEN {Stopped("ZeroDivisionError", TRUE, layout2, Zero)}
    ELSE IF AspectMismatch(layout1, layout2, aspect_ratio_threshold)
    THEN {Stopped("aspect ratio mismatch", FALSE, layout2, Zero)}
    ELSE IF layout2.width = 0
    THEN {Stopped("ZeroDivisionError", TRUE, layout2, Zero)}
    ELSE
    LET scale_factor == Rat(layout1.width, layout2.width)
        scaled       == scale(layout2, scale_factor)
        elements1    == layout1.elements
        elements2    == scaled.elements
    IN  IF Len(elements1) = 0 \/ Len(elements2) = 0
        THEN {Stopped("empty", FALSE, scaled, scale_factor)}
        ELSE IF use_area /\ AreaRaises(elements1, elements2, area_method)
        THEN {Stopped("ValueError", TRUE, scaled, scale_factor)}
        ELSE
        LET iou_matrix    == calculate_iou_matrix(elements1, elements2)
            area_matrix   == IF use_area
                             THEN calculate_area_similarity_matrix(
                                      elements1, elements2, area_method)
                             ELSE NoneMatrix
            weight_matrix == calculate_weight_matrix_with_area(
                                 elements1, elements2, iou_matrix, area_matrix,
                                 IF use_area THEN area_weight ELSE Zero)
        IN  {[stage |-> IF s.raised THEN "ValueError" ELSE "matched",
              raised |-> s.raised,
              similarity_score |-> s.total_score,
              matching_pairs |-> s.matching_pairs,
              layout2 |-> scaled,
              scale_factor |-> scale_factor,
              built |-> TRUE,
              area_matrix |-> area_matrix,
              weight_matrix |-> weight_matrix] :
                 s \in solve_bipartite_matching(weight_matrix)}

----------------------------------------------------------------------------
(* Inputs *)

SeqsUpTo(S, n) == UNION {[1..k -> S] : k \in 0..n}

QueryCanvases == {<<1, 1>>, <<2, 2>>, <<4, 4>>, <<6, 5>>}
RefCanvases == {<<4, 4>>, <<6, 5>>}

QueryElements ==
    {LayoutElement("face", <<0, 0, 2, 2>>),
     LayoutElement("body", <<0, 0, 2, 2>>)}

RefElements ==
    {LayoutElement("face", <<0, 0, 2, 2>>),
     LayoutElement("body", <<1, 1, 2, 2>>)}

\* elements of a pool that lie on a canvas of the given size
Fitting(pool, canvas) ==
    {e \in pool : e.bbox[3] <= canvas[1] /\ e.bbox[4] <= canvas[2]}

Layouts(canvases, pool, maxElems) ==
    UNION {{Layout(els, c[1], c[2]) :
               els \in SeqsUpTo(Fitting(pool, c), maxElems)} : c \in canvases}

Queries == Layouts(QueryCanvases, QueryElements, MaxQueryElems)
RefLayouts == Layouts(RefCanvases, RefElements, MaxRefElems)

RefIds == {"ref"}

DefaultThreshold == Rat(1, 5)
DefaultAreaWeight == Rat(1, 10)

Thresholds == {Rat(1, 10), DefaultThreshold}
AreaWeights == {Zero, DefaultAreaWeight, One}

Options ==
    {[use_area |-> FALSE, area_weight |-> DefaultAreaWeight,
      area_method |-> "ratio"]}
    \cup
    {[use_area |-> TRUE, area_weight |-> a, area_method |-> mth] :
        a \in AreaWeights, mth \in AreaMethods}
    \cup
    {[use_area |-> TRUE, area_weight |-> DefaultAreaWeight,
      area_method |-> "other"]}

\* the call whose repetitions are compared with each other
ProbeQuery == Layout(<<LayoutElement("face", <<0, 0, 2, 2>>)>>, 4, 4)
ProbeOptions ==
    [use_area |-> TRUE, area_weight |-> DefaultAreaWeight,
     area_method |-> "ratio"]
IsProbe(layout1, aspect_ratio_threshold, opt) ==
    /\ layout1 = ProbeQuery
    /\ aspect_ratio_threshold = DefaultThreshold
    /\ opt = ProbeOptions

Weights == {Zero, Rat(1, 2), One}

WeightMatrices ==
    UNION {{[m |-> m, n |-> n, w |-> f] : f \in [Cells(m, n) -> Weights]} :
              m \in 0..MaxRows, n \in 0..MaxCols}

----------------------------------------------------------------------------
(* LayoutGenerator (src/lib/page/layout_generator.py): trees of page splits *)

FDiv(a, b) ==
    IF IsNaN(a) \/ IsNaN(b) \/ b[1] = 0 THEN NaN
    ELSE IF b[1] > 0 THEN Rat(a[1] * b[2], a[2] * b[1])
    ELSE Rat(-(a[1] * b[2]), a[2] * (-b[1]))

FMin(a, b) == IF FLt(b, a) THEN b ELSE a
FMax(a, b) == IF FLt(a, b) THEN b ELSE a

\* int(x) of a float
FInt(x) == IntTrunc(x[1], x[2])

\* LayoutGenerator(style_model_path, page_width, page_height, direction)
LayoutGenerator(models, page_width, page_height, direction) ==
    [w |-> page_width, h |-> page_height, direction |-> direction,
     models |-> models]

\* p.get('importance_score', 5)
importance_score(p) ==
    IF "importance_score" \in DOMAIN p THEN p.importance_score ELSE 5

RECURSIVE SumImportance(_)
SumImportance(panels) ==
    IF panels = <<>> THEN 0
    ELSE importance_score(Head(panels)) + SumImportance(Tail(panels))

\* the outcomes of "H" if random.random() < prob_h else "V", random() in [0, 1)
SplitTypes(prob_h) ==
    (IF FLt(Zero, prob_h) THEN {"H"} ELSE {}) \cup
    (IF FLt(prob_h, One) THEN {"V"} ELSE {})

\* values of random.uniform(-0.05, 0.05): both ends and the middle
Jitters == {Rat(-1, 20), Zero, Rat(1, 20)}

\* self.models["structure"][key]["H"], key depth_<depth> or else depth_0
prob_h(self, depth) ==
    LET key == IF depth \in DOMAIN self.models.structure THEN depth ELSE 0
    IN  self.models.structure[key].H

\* the weight of grp_a taken relative to grp_b instead of to all panels
SplitRatioOverGroupB(panels, split_idx, jitter) ==
    LET w_a   == SumImportance(SubSeq(panels, 1, split_idx))
        w_tot == SumImportance(SubSeq(panels, split_idx + 1, Len(panels)))
        target_ratio == IF w_tot > 0 THEN Rat(w_a, w_tot) ELSE Rat(1, 2)
    IN  FMax(Rat(1, 5), FMin(Rat(4, 5), FAdd(target_ratio, jitter)))

\* the target ratio with the jitter added and no clamping
SplitRatioUnclamped(panels, split_idx, jitter) ==
    LET w_a   == SumImportance(SubSeq(panels, 1, split_idx))
        w_tot == SumImportance(panels)
        target_ratio == IF w_tot > 0 THEN Rat(w_a, w_tot) ELSE Rat(1, 2)
    IN  FAdd(target_ratio, jitter)

\* target_ratio and the clamped ratio after the jitter
SplitRatio(panels, split_idx, jitter) ==
    LET w_a   == SumImportance(SubSeq(panels, 1, split_idx))
        w_tot == SumImportance(panels)
        target_ratio == IF w_tot > 0 THEN Rat(w_a, w_tot) ELSE Rat(1, 2)
    IN  FMax(Rat(1, 5), FMin(Rat(4, 5), FAdd(target_ratio, jitter)))

\* the two rectangles with grp_a always placed on the left
SplitRectsRtlUnaware(self, split_type, rect, ratio) ==
    IF split_type = "H"
    THEN [left  |-> "grp_a", right |-> "grp_b",
          rect_left  |-> [rect EXCEPT !.h = FMul(rect.h, ratio)],
          rect_right |-> [rect EXCEPT
                            !.y = FAdd(rect.y, FMul(rect.h, ratio)),
                            !.h = FMul(rect.h, FSub(One, ratio))]]
    ELSE LET w_a == FMul(rect.w, ratio)
             w_b == FMul(rect.w, FSub(One, ratio))
         IN  [left  |-> "grp_a", right |-> "grp_b",
              rect_left  |-> [rect EXCEPT !.w = w_a],
              rect_right |-> [rect EXCEPT !.x = FAdd(rect.x, w_a),
                                          !.w = w_b]]

\* the second rectangle sized by the ratio itself, not by 1 - ratio
SplitRectsNotComplementary(self, split_type, rect, ratio) ==
    IF split_type = "H"
    THEN [left  |-> "grp_a", right |-> "grp_b",
          rect_left  |-> [rect EXCEPT !.h = FMul(rect.h, ratio)],
          rect_right |-> [rect EXCEPT
                            !.y = FAdd(rect.y, FMul(rect.h, ratio)),
                            !.h = FMul(rect.h, ratio)]]
    ELSE LET w_a == FMul(rect.w, ratio)
             w_b == FMul(rect.w, ratio)
         IN  IF self.direction = "rtl"
             THEN [left  |-> "grp_b", right |-> "grp_a",
                   rect_left  |-> [rect EXCEPT !.w = w_b],
                   rect_right |-> [rect EXCEPT !.x = FAdd(rect.x, w_b),
                                               !.w = w_a]]
             ELSE [left  |-> "grp_a", right |-> "grp_b",
                   rect_left  |-> [rect EXCEPT !.w = w_a],
                   rect_right |-> [rect EXCEPT !.x = FAdd(rect.x, w_a),
                                               !.w = w_b]]

\* the rectangles of one split and the group that goes to each child
SplitRects(self, split_type, rect, ratio) ==
    IF split_type = "H"
    THEN [left  |-> "grp_a", right |-> "grp_b",
          rect_left  |-> [rect EXCEPT !.h = FMul(rect.h, ratio)],
          rect_right |-> [rect EXCEPT
                            !.y = FAdd(rect.y, FMul(rect.h, ratio)),
                            !.h = FMul(rect.h, FSub(One, ratio))]]
    ELSE LET w_a == FMul(rect.w, ratio)
             w_b == FMul(rect.w, FSub(One, ratio))
         IN  IF self.direction = "rtl"
             THEN [left  |-> "grp_b", right |-> "grp_a",
                   rect_left  |-> [rect EXCEPT !.w = w_b],
                   rect_right |-> [rect EXCEPT !.x = FAdd(rect.x, w_b),
                                               !.w = w_a]]
             ELSE [left  |-> "grp_a", right |-> "grp_b",
                   rect_left  |-> [rect EXCEPT !.w = w_a],
                   rect_right |-> [rect EXCEPT !.x = FAdd(rect.x, w_a),
                                               !.w = w_b]]

\* the trees of a split whose first group takes the last panel of the list
RECURSIVE _random_treeScattered(_, _, _, _)
_random_treeScattered(self, panels, rect, depth) ==
    IF Len(panels) = 1
    THEN {[type |-> "leaf", p_idx |-> panels[1].panel_index, rect |-> rect]}
    ELSE UNION {
           LET grp_a == <<panels[Len(panels)]>>
                           \o SubSeq(panels, 1, split_idx - 1)
               grp_b == SubSeq(panels, split_idx, Len(panels) - 1)
               ratio == SplitRatio(panels, split_idx, jitter)
               cut   == SplitRects(self, split_type, rect, ratio)
               group(name) == IF name = "grp_a" THEN grp_a ELSE grp_b
           IN  {[type |-> "node", split |-> split_type,
                 left |-> l, right |-> r] :
                   l \in _random_treeScattered(self, group(cut.left),
                                               cut.rect_left, depth + 1),
                   r \in _random_treeScattered(self, group(cut.right),
                                               cut.rect_right, depth + 1)} :
             split_type \in SplitTypes(prob_h(self, depth)),
             split_idx \in 1..(Len(panels) - 1),
             jitter \in Jitters}

\* every tree _random_tree(panels, rect, depth) can return
RECURSIVE _random_tree(_, _, _, _)
_random_tree(self, panels, rect, depth) ==
    IF Len(panels) = 1
    THEN {[type |-> "leaf", p_idx |-> panels[1].panel_index, rect |-> rect]}
    ELSE UNION {
           LET grp_a == SubSeq(panels, 1, split_idx)
               grp_b == SubSeq(panels, split_idx + 1, Len(panels))
               ratio == SplitRatio(panels, split_idx, jitter)
               cut   == SplitRects(self, split_type, rect, ratio)
               group(name) == IF name = "grp_a" THEN grp_a ELSE grp_b
           IN  {[type |-> "node", split |-> split_type,
                 left |-> l, right |-> r] :
                   l \in _random_tree(self, group(cut.left), cut.rect_left,
                                      depth + 1),
                   r \in _random_tree(self, group(cut.right), cut.rect_right,
                                      depth + 1)} :
             split_type \in SplitTypes(prob_h(self, depth)),
             split_idx \in 1..(Len(panels) - 1),
             jitter \in Jitters}

\* the leaves of the left branch only
RECURSIVE _get_leavesLeftOnly(_)
_get_leavesLeftOnly(node) ==
    IF node.type = "leaf" THEN <<node>>
    ELSE _get_leavesLeftOnly(node.left)

RECURSIVE _get_leaves(_)
_get_leaves(node) ==
    IF node.type = "leaf" THEN <<node>>
    ELSE _get_leaves(node.left) \o _get_leaves(node.right)

RECURSIVE _hash_tree(_)
_hash_tree(node) ==
    IF node.type = "leaf" THEN "L(" \o ToString(node.p_idx) \o ")"
    ELSE node.split \o "[" \o _hash_tree(node.left) \o "|"
            \o _hash_tree(node.right) \o "]"

\* next(p for p in original_panels if p['panel_index'] == p_idx)
FirstWithIndex(original_panels, p_idx) ==
    LET k == CHOOSE k \in DOMAIN original_panels :
                /\ original_panels[k].panel_index = p_idx
                /\ \A j \in 1..(k - 1) : original_panels[j].panel_index # p_idx
    IN  original_panels[k]

\* one entry of the flattened layout: the panel's copy with its bbox
FlatEntry(original_panels, leaf) ==
    LET orig == FirstWithIndex(original_panels, leaf.p_idx)
        r    == leaf.rect
    IN  [key \in DOMAIN orig \cup {"bbox"} |->
           IF key = "bbox"
           THEN <<FInt(r.x), FInt(r.y), FInt(r.w), FInt(r.h)>>
           ELSE orig[key]]

_flatten_tree(node, original_panels) ==
    LET leaves == _get_leaves(node)
    IN  [k \in DOMAIN leaves |-> FlatEntry(original_panels, leaves[k])]


LeafArea(leaf) == FMul(leaf.rect.w, leaf.rect.h)

\* leaves.sort(key=area, reverse=True): stable, the larger areas first
RECURSIVE SortLeaves(_)
SortLeaves(leaves) ==
    IF leaves = <<>> THEN <<>>
    ELSE LET n      == Len(leaves)
             sorted == SortLeaves(SubSeq(leaves, 1, n - 1))
             leaf   == leaves[n]
             ahead  == Cardinality({k \in DOMAIN sorted :
                          FLe(LeafArea(leaf), LeafArea(sorted[k]))})
         IN  SubSeq(sorted, 1, ahead) \o <<leaf>>
                \o SubSeq(sorted, ahead + 1, n - 1)

\* the position in models["importance"] of the key used for num_panels:
\* the key itself, else the first closest key, else 0 when there is no key
ImportanceKey(importance, num_panels) ==
    IF \E k \in DOMAIN importance : importance[k].n = num_panels
    THEN CHOOSE k \in DOMAIN importance : importance[k].n = num_panels
    ELSE IF importance = <<>> THEN 0
    ELSE CHOOSE k \in DOMAIN importance :
            /\ \A j \in DOMAIN importance :
                  Abs(importance[k].n - num_panels)
                     <= Abs(importance[j].n - num_panels)
            /\ \A j \in 1..(k - 1) :
                  Abs(importance[k].n - num_panels)
                     < Abs(importance[j].n - num_panels)

\* the penalty of one leaf for being thin or flat
ShapeCost(leaf) ==
    LET ratio == IF FLt(Zero, leaf.rect.h) THEN FDiv(leaf.rect.w, leaf.rect.h)
                 ELSE One
    IN  FAdd(IF FLt(ratio, Rat(1, 2)) \/ FLt(Rat(2, 1), ratio)
             THEN Rat(50, 1) ELSE Zero,
             IF FLt(ratio, Rat(3, 20)) \/ FLt(Rat(6, 1), ratio)
             THEN Rat(1000, 1) ELSE Zero)

RECURSIVE SumCost(_, _, _, _)
SumCost(leaves, targets, total_area, rank) ==
    IF rank >= Len(leaves) THEN Zero
    ELSE LET leaf       == leaves[rank + 1]
             actual_pct == FDiv(LeafArea(leaf), Rat(total_area, 1))
             diff       == IF rank \in DOMAIN targets
                           THEN FSub(actual_pct, targets[rank]) ELSE Zero
         IN  FAdd(FAdd(FMul(FMul(diff, diff), Rat(100, 1)), ShapeCost(leaf)),
                  SumCost(leaves, targets, total_area, rank + 1))

_score_tree(self, tree, num_panels) ==
    LET leaves == SortLeaves(_get_leaves(tree))
        key    == ImportanceKey(self.models.importance, num_panels)
    IN  IF key = 0 THEN Zero
        ELSE SumCost(leaves, self.models.importance[key].targets,
                     self.w * self.h, 0)

\* root_rect = {'x': 0, 'y': 0, 'w': self.w, 'h': self.h}
root_rect(self) ==
    [x |-> Zero, y |-> Zero, w |-> Rat(self.w, 1), h |-> Rat(self.h, 1)]

\* best_tree = None, and float('inf')
NoTree == [type |-> "none"]
Inf == <<1, 0>>

\* the candidate replaces the retained one on a tie as well
CostLessOrEqual(cost, best_cost) ==
    IF best_cost = Inf THEN TRUE ELSE FLe(cost, best_cost)

\* cost < best_cost
CostLess(cost, best_cost) ==
    IF best_cost = Inf THEN TRUE ELSE FLt(cost, best_cost)

\* candidates.sort(key=lambda x: x[0]): stable, the lower costs first
RECURSIVE SortCandidates(_)
SortCandidates(candidates) ==
    IF candidates = <<>> THEN <<>>
    ELSE LET n      == Len(candidates)
             sorted == SortCandidates(SubSeq(candidates, 1, n - 1))
             c      == candidates[n]
             ahead  == Cardinality({k \in DOMAIN sorted :
                          FLe(sorted[k].cost, c.cost)})
         IN  SubSeq(sorted, 1, ahead) \o <<c>>
                \o SubSeq(sorted, ahead + 1, n - 1)

\* no signature is ever taken as seen
SeenNever(t_hash, seen_hashes) == FALSE

\* t_hash in seen_hashes
Seen(t_hash, seen_hashes) == t_hash \in seen_hashes

\* the loop of generate_top_k over the sorted candidates; an entry of the
\* results keeps, next to (cost, layout_flat), the tree it was flattened from
RECURSIVE CollectTopK(_, _, _, _, _)
CollectTopK(candidates, k, panels, results, seen_hashes) ==
    IF candidates = <<>> \/ Len(results) >= k THEN results
    ELSE LET c == Head(candidates)
         IN  IF Seen(c.tree_hash, seen_hashes)
             THEN CollectTopK(Tail(candidates), k, panels, results,
                              seen_hashes)
             ELSE CollectTopK(Tail(candidates), k, panels,
                              Append(results,
                                     [cost |-> c.cost, tree |-> c.tree,
                                      layout |-> _flatten_tree(c.tree, panels)]),
                              seen_hashes \cup {c.tree_hash})

\* iterations = 1000 in the source, bounded here
iterations == MaxTrials

----------------------------------------------------------------------------
(* Style models, panel lists and generators given to the LayoutGenerator *)

\* depth_0.H = 1.0: every cut horizontal; no importance statistics
StyleAlwaysH ==
    [structure  |-> (0 :> [H |-> One]),
     importance |-> <<>>]

\* either cut at depth 0, vertical cuts at depth 1; targets for 2 panels
StyleMixed ==
    [structure  |-> (0 :> [H |-> Rat(1, 2)] @@ 1 :> [H |-> Zero]),
     importance |-> <<[n |-> 2,
                       targets |-> (0 :> Rat(3, 5) @@ 1 :> Rat(2, 5))]>>]

\* every cut vertical; importance targets for 3 panels only
StyleAlwaysV ==
    [structure  |-> (0 :> [H |-> Zero]),
     importance |-> <<[n |-> 3,
                       targets |-> (0 :> Rat(1, 2) @@ 1 :> Rat(3, 10)
                                      @@ 2 :> Rat(1, 5))]>>]

Styles == {StyleAlwaysH, StyleMixed, StyleAlwaysV}

Directions == {"rtl", "ltr"}

Generators ==
    {LayoutGenerator(models, 1000, 1414, direction) :
        models \in Styles, direction \in Directions}

\* the k-th panel of a storyboard page, with or without an importance score
Panel(panel_index, score, k) ==
    IF score = "missing" THEN [panel_index |-> panel_index]
    ELSE [panel_index |-> panel_index,
          importance_score |-> IF score = "equal" THEN 5
                               ELSE IF score = "zero" THEN 0
                               ELSE IF k = 1 THEN 3 ELSE 1]

\* lists of n panels with distinct indices, numbered upwards or downwards
PanelLists(n) ==
    {[k \in 1..n |-> Panel(IF up THEN k - 1 ELSE 10 - k, score, k)] :
        up \in BOOLEAN, score \in {"equal", "missing", "zero", "lead"}}

NoSampler ==
    [op |-> "none", pc |-> "idle",
     self |-> LayoutGenerator(StyleAlwaysH, 1000, 1414, "rtl"),
     panels |-> <<>>, k |-> 0, i |-> 0, tree |-> NoTree,
     best_tree |-> NoTree, best_cost |-> Inf, trials |-> <<>>,
     result |-> <<>>]

----------------------------------------------------------------------------
(* LayoutOptimizer (src/lib/page/layout_optimizer.py): slicing the page
   into polygons.  A point is a pair <<x, y>> of floats and a polygon a list
   of points.  The parameters of a cut are its ratio and its angle; the
   angle a is carried by its tangent, and the cut's normal (sin a, cos a) or
   (cos a, sin a) by the same vector divided by cos a, which is positive for
   the angles within the bounds: the side of the line a point lies on and
   the intersection points are those of the normal itself *)

LayoutOptimizer(page_width, page_height, gutter) ==
    [w |-> page_width, h |-> page_height, gutter |-> gutter]

\* raised stands for an exception that leaves the call
Raised == [raised |-> TRUE, results |-> <<>>]
Returned(results) == [raised |-> FALSE, results |-> results]

RECURSIVE _collect_nodes(_)
_collect_nodes(node) ==
    IF node.type = "leaf" THEN <<>>
    ELSE <<node>> \o _collect_nodes(node.left) \o _collect_nodes(node.right)

\* the side taken against the parallel line through (0, 0)
SideDistFromZero(normal, p, origin) ==
    FAdd(FMul(normal[1], p[1]), FMul(normal[2], p[2]))

\* nx*(p[0]-ox) + ny*(p[1]-oy)
SideDist(normal, p, origin) ==
    FAdd(FMul(normal[1], FSub(p[1], origin[1])),
         FMul(normal[2], FSub(p[2], origin[2])))

\* the two lists after the first i rounds of the loop over the vertices
RECURSIVE ClipLoop(_, _, _, _)
ClipLoop(poly, normal, origin, i) ==
    IF i = 0 THEN [new_poly_negative |-> <<>>, new_poly_positive |-> <<>>]
    ELSE LET acc       == ClipLoop(poly, normal, origin, i - 1)
             curr_p    == poly[i]
             prev_p    == poly[IF i = 1 THEN Len(poly) ELSE i - 1]
             curr_dist == SideDist(normal, curr_p, origin)
             prev_dist == SideDist(normal, prev_p, origin)
             t         == FDiv(prev_dist, FSub(prev_dist, curr_dist))
             crossing  ==
                 <<FAdd(prev_p[1], FMul(t, FSub(curr_p[1], prev_p[1]))),
                   FAdd(prev_p[2], FMul(t, FSub(curr_p[2], prev_p[2])))>>
         IN  IF FLe(Zero, curr_dist)
             THEN IF FLt(prev_dist, Zero)
                  THEN [new_poly_negative |->
                            Append(acc.new_poly_negative, crossing),
                        new_poly_positive |->
                            acc.new_poly_positive \o <<crossing, curr_p>>]
                  ELSE [acc EXCEPT !.new_poly_positive = Append(@, curr_p)]
             ELSE IF FLe(Zero, prev_dist)
                  THEN [new_poly_negative |->
                            acc.new_poly_negative \o <<crossing, curr_p>>,
                        new_poly_positive |->
                            Append(acc.new_poly_positive, crossing)]
                  ELSE [acc EXCEPT !.new_poly_negative = Append(@, curr_p)]

_clip_polygon(poly, normal, origin) ==
    ClipLoop(poly, normal, origin, Len(poly))

\* np.min and np.max of a non-empty list of floats
RECURSIVE np_min(_)
np_min(values) ==
    IF Len(values) = 1 THEN values[1]
    ELSE FMin(np_min(SubSeq(values, 1, Len(values) - 1)),
              values[Len(values)])

RECURSIVE np_max(_)
np_max(values) ==
    IF Len(values) = 1 THEN values[1]
    ELSE FMax(np_max(SubSeq(values, 1, Len(values) - 1)),
              values[Len(values)])

Xs(polygon) == [i \in DOMAIN polygon |-> polygon[i][1]]
Ys(polygon) == [i \in DOMAIN polygon |-> polygon[i][2]]

\* the normal of a cut and the point of the cut line it turns around
CutLine(split, poly, ratio, angle) ==
    LET min_x    == np_min(Xs(poly))
        min_y    == np_min(Ys(poly))
        w        == FSub(np_max(Xs(poly)), min_x)
        h        == FSub(np_max(Ys(poly)), min_y)
        center_x == FAdd(min_x, FDiv(w, Rat(2, 1)))
        center_y == FAdd(min_y, FDiv(h, Rat(2, 1)))
    IN  IF split = "H"
        THEN [normal |-> <<angle, One>>,
              P0 |-> <<center_x, FAdd(min_y, FMul(h, ratio))>>]
        ELSE [normal |-> <<One, angle>>,
              P0 |-> <<FAdd(min_x, FMul(w, ratio)), center_y>>]

\* param_map.get(id(node), (0.5, 0.0)) for the i-th node of nodes_flat
ParamOf(params, i) ==
    IF (i - 1) * 2 < Len(params) THEN <<params[2 * i - 1], params[2 * i]>>
    ELSE <<Rat(1, 2), Zero>>

\* node is the i-th node of nodes_flat; np.min raises on an empty polygon
RECURSIVE _slice_recursive(_, _, _, _)
_slice_recursive(node, poly, params, i) ==
    IF node.type = "leaf"
    THEN Returned(<<[panel_index |-> node.p_idx, polygon |-> poly]>>)
    ELSE IF Len(poly) = 0 THEN Raised
    ELSE LET ratio  == ParamOf(params, i)[1]
             angle  == ParamOf(params, i)[2]
             cut    == CutLine(node.split, poly, ratio, angle)
             halves == _clip_polygon(poly, cut.normal, cut.P0)
             a      == _slice_recursive(node.left, halves.new_poly_negative,
                                        params, i + 1)
             b      == _slice_recursive(node.right, halves.new_poly_positive,
                                        params,
                                        i + 1 + Len(_collect_nodes(node.left)))
         IN  IF a.raised THEN Raised
             ELSE IF b.raised THEN Raised
             ELSE Returned(a.results \o b.results)

page_poly(self) ==
    <<<<Zero, Zero>>, <<Rat(self.w, 1), Zero>>,
      <<Rat(self.w, 1), Rat(self.h, 1)>>, <<Zero, Rat(self.h, 1)>>>>

_tree_to_panels(self, tree, params) ==
    _slice_recursive(tree, page_poly(self), params, 1)

RECURSIVE np_sum(_)
np_sum(values) ==
    IF Len(values) = 0 THEN Zero
    ELSE FAdd(np_sum(SubSeq(values, 1, Len(values) - 1)),
              values[Len(values)])

np_mean(values) == FDiv(np_sum(values), Rat(Len(values), 1))

\* the shrink moves every vertex away from the centroid
ShrinkScaleGrowing(w, h, px) ==
    FMax(FDiv(FAdd(w, Rat(px * 2, 1)), w), FDiv(FAdd(h, Rat(px * 2, 1)), h))

\* scale = min(scale_x, scale_y)
ShrinkScale(w, h, px) ==
    FMin(FDiv(FSub(w, Rat(px * 2, 1)), w), FDiv(FSub(h, Rat(px * 2, 1)), h))

\* poly_arr[:, 0] raises on the array of an empty polygon
_shrink_polygon(polygon, px) ==
    IF Len(polygon) = 0 THEN [raised |-> TRUE, polygon |-> <<>>]
    ELSE LET xs == Xs(polygon)
             ys == Ys(polygon)
             cx == np_mean(xs)
             cy == np_mean(ys)
             w  == FSub(np_max(xs), np_min(xs))
             h  == FSub(np_max(ys), np_min(ys))
             scale_min == ShrinkScale(w, h, px)
         IN  IF FLe(w, Rat(px * 2, 1)) \/ FLe(h, Rat(px * 2, 1))
             THEN [raised |-> FALSE, polygon |-> polygon]
             ELSE [raised |-> FALSE,
                   polygon |->
                       [i \in DOMAIN polygon |->
                           <<FAdd(cx, FMul(FSub(polygon[i][1], cx), scale_min)),
                             FAdd(cy, FMul(FSub(polygon[i][2], cy), scale_min))>>]]

_apply_gutters(self, panels) ==
    IF self.gutter <= 0 THEN Returned(panels)
    ELSE IF \E i \in DOMAIN panels :
                _shrink_polygon(panels[i].polygon, self.gutter).raised
         THEN Raised
         ELSE Returned([i \in DOMAIN panels |->
                  [panels[i] EXCEPT
                      !.polygon = _shrink_polygon(@, self.gutter).polygon]])

\* np.dot(a, np.roll(b, 1))
RECURSIVE DotRolled(_, _, _)
DotRolled(a, b, i) ==
    IF i = 0 THEN Zero
    ELSE FAdd(DotRolled(a, b, i - 1),
              FMul(a[i], b[IF i = 1 THEN Len(b) ELSE i - 1]))

\* the shoelace area of a polygon
ShoelaceArea(poly) ==
    LET xs == Xs(poly)
        ys == Ys(poly)
        d  == FSub(DotRolled(xs, ys, Len(poly)), DotRolled(ys, xs, Len(poly)))
    IN  FMul(Rat(1, 2), IF d[1] < 0 THEN FNeg(d) ELSE d)

\* next((m['importance_score'] for m in meta if ...), 5)
RECURSIVE imp_score(_, _)
imp_score(meta, panel_index) ==
    IF meta = <<>> THEN 5
    ELSE IF Head(meta).panel_index = panel_index
         THEN Head(meta).importance_score
         ELSE imp_score(Tail(meta), panel_index)

\* what one panel adds to total_cost
PanelCost(self, p, meta) ==
    IF Len(p.polygon) < 3 THEN Rat(10000, 1)
    ELSE LET area        == ShoelaceArea(p.polygon)
             target_area == FMul(Rat(imp_score(meta, p.panel_index), 1),
                                 FDiv(Rat(self.w * self.h, 1), Rat(25, 1)))
             deviation   == FDiv(FSub(area, target_area), target_area)
         IN  FMul(FMul(deviation, deviation), Rat(10, 1))

RECURSIVE TotalCost(_, _, _)
TotalCost(self, final_panels, meta) ==
    IF final_panels = <<>> THEN Zero
    ELSE LET n == Len(final_panels)
         IN  FAdd(TotalCost(self, SubSeq(final_panels, 1, n - 1), meta),
                  PanelCost(self, final_panels[n], meta))

\* x0: the ratio 0.5 and the angle 0.0 for every cut
RECURSIVE x0(_)
x0(num_cuts) ==
    IF num_cuts = 0 THEN <<>>
    ELSE x0(num_cuts - 1) \o <<Rat(1, 2), Zero>>

\* the trees given to the optimizer, with the fields it reads
OptLeaf(p_idx) == [type |-> "leaf", p_idx |-> p_idx]
OptNode(split, left, right) ==
    [type |-> "node", split |-> split, left |-> left, right |-> right]

OptTrees ==
    {OptLeaf(0),
     OptNode("H", OptLeaf(0), OptLeaf(1)),
     OptNode("V", OptLeaf(0), OptLeaf(1)),
     OptNode("H", OptNode("H", OptLeaf(0), OptLeaf(1)), OptLeaf(2)),
     OptNode("H", OptNode("H", OptLeaf(0),
                               OptNode("H", OptLeaf(1), OptLeaf(2))),
                  OptLeaf(3))}

\* bounds (0.2, 0.8) of a ratio and (-0.15, 0.15) of an angle, whose tangent
\* lies within -0.1511 and 0.1511
Ratios == {Rat(1, 4), Rat(1, 2), Rat(3, 4)}
Angles == {Rat(-1, 8), Zero, Rat(1, 8)}

RECURSIVE ParamVectors(_)
ParamVectors(num_cuts) ==
    IF num_cuts = 0 THEN {<<>>}
    ELSE {x \o <<ratio, angle>> :
             x \in ParamVectors(num_cuts - 1),
             ratio \in Ratios, angle \in Angles}

\* a page of 160 by 40 pixels without gutter, with a narrow and a wide one
Optimizers == {LayoutOptimizer(160, 40, gutter) : gutter \in {0, 2, 20}}

\* panels_metadata: a score for every panel, or for none
Metas ==
    {<<>>,
     [k \in 1..4 |-> [panel_index |-> k - 1, importance_score |-> 5]]}

\* no pipeline stage has been called
NoPipeline == [op |-> "none", pc |-> "idle"]

NoOptimizer ==
    [op |-> "none", pc |-> "idle", self |-> LayoutOptimizer(1000, 1414, 20),
     tree |-> OptLeaf(0), meta |-> <<>>, x |-> <<>>,
     point |-> <<>>, calls |-> 0, final_panels |-> <<>>, cost |-> Zero,
     res_x |-> <<>>, raw_panels |-> <<>>,
     result |-> [raised |-> FALSE, total_cost |-> Zero, results |-> <<>>]]

----------------------------------------------------------------------------
(* State machine of the similarity calls on the shared reference layouts *)

NoCall ==
    [made |-> FALSE, layout1 |-> Layout(<<>>, 1, 1), r |-> "ref",
     before |-> Layout(<<>>, 1, 1),
     aspect_ratio_threshold |-> DefaultThreshold,
     use_area |-> FALSE, area_weight |-> Zero, area_method |-> "ratio",
     repeated |-> FALSE,
     out |-> Stopped("none", FALSE, Layout(<<>>, 1, 1), Zero)]

NoResult ==
    [done |-> FALSE, raised |-> FALSE, total_score |-> Zero,
     matching_pairs |-> <<>>]

Unset == [set |-> FALSE, similarity_score |-> Zero]

NoRoundTrip ==
    [pc |-> "none", original |-> Layout(<<>>, 1, 1), scale_factor |-> One,
     layout |-> Layout(<<>>, 1, 1)]

Init ==
    /\ refs \in [RefIds -> RefLayouts]
    /\ call = NoCall
    /\ first = Unset
    /\ matrix = Zeros(0, 0)
    /\ solved = NoResult
    /\ roundtrip = NoRoundTrip
    /\ sampler = NoSampler
    /\ optimizer = NoOptimizer
    /\ pipeline = NoPipeline

\* one call calc_similarity(layout1, refs[r], ...) by a client of the corpus;
\* with `track` the score of the first probed call is kept for comparison
CalcSimilarity(layout1, r, aspect_ratio_threshold, opt, track) ==
    /\ ~call.made
    /\ \E out \in calc_similarity(layout1, refs[r], aspect_ratio_threshold,
                               opt.use_area, opt.area_weight, opt.area_method) :
           /\ refs' = [refs EXCEPT ![r] = out.layout2]
           /\ call' = [made |-> TRUE, layout1 |-> layout1, r |-> r,
                       before |-> refs[r],
                       aspect_ratio_threshold |-> aspect_ratio_threshold,
                       use_area |-> opt.use_area,
                       area_weight |-> opt.area_weight,
                       area_method |-> opt.area_method,
                       repeated |-> /\ track
                                    /\ IsProbe(layout1, aspect_ratio_threshold, opt)
                                    /\ first.set,
                       out |-> out]
           /\ first' = IF /\ track
                          /\ IsProbe(layout1, aspect_ratio_threshold, opt)
                          /\ ~first.set
                          /\ ~out.raised
                       THEN [set |-> TRUE,
                             similarity_score |-> out.similarity_score]
                       ELSE first
           /\ UNCHANGED <<matrix, solved>>
           /\ UNCHANGED pageVars

\* the caller takes the returned score and goes on to its next comparison
NextComparison ==
    /\ call.made
    /\ call' = NoCall
    /\ UNCHANGED <<refs, first, matrix, solved>>
    /\ UNCHANGED pageVars

Next ==
    \/ \E layout1 \in Queries, r \in RefIds,
          aspect_ratio_threshold \in Thresholds, opt \in Options :
          CalcSimilarity(layout1, r, aspect_ratio_threshold, opt, FALSE)
    \/ NextComparison

Spec == Init /\ [][Next]_vars

\* the same calls with default options, the first probed score remembered
NextHistory ==
    \/ \E layout1 \in Queries, r \in RefIds,
          aspect_ratio_threshold \in Thresholds :
          CalcSimilarity(layout1, r, aspect_ratio_threshold, ProbeOptions, TRUE)
    \/ NextComparison

SpecHistory == Init /\ [][NextHistory]_vars

----------------------------------------------------------------------------
(* solve_bipartite_matching applied to arbitrary non-negative matrices *)

InitMatching ==
    /\ refs = [r \in RefIds |-> Layout(<<>>, 1, 1)]
    /\ call = NoCall
    /\ first = Unset
    /\ matrix \in WeightMatrices
    /\ solved = NoResult
    /\ roundtrip = NoRoundTrip
    /\ sampler = NoSampler
    /\ optimizer = NoOptimizer
    /\ pipeline = NoPipeline

SolveBipartiteMatching ==
    /\ ~solved.done
    /\ \E s \in solve_bipartite_matching(matrix) :
          solved' = [done |-> TRUE, raised |-> s.raised,
                     total_score |-> s.total_score,
                     matching_pairs |-> s.matching_pairs]
    /\ UNCHANGED <<refs, call, first, matrix>>
    /\ UNCHANGED pageVars

NextMatching == SolveBipartiteMatching

SpecMatching == InitMatching /\ [][NextMatching]_vars

----------------------------------------------------------------------------
(* Properties of the similarity calls, checked under Spec (C2: SpecHistory) *)

\* C1: calc_similarity never mutates the caller's reference layout: after
\* any call the reference's width, height and every element bbox equal their
\* values before the call.
C1_ReferenceNotMutated ==
    call.made => refs[call.r] = call.before

\* C2: calc_similarity is history-independent: a call with the same query,
\* the same reference object and the same options as an earlier call returns
\* the score the first such call returned, whatever calls came in between.
C2_SameScoreAsFirstCall ==
    (call.made /\ call.repeated) =>
        /\ ~call.out.raised
        /\ call.out.similarity_score = first.similarity_score

\* C4: aspect-ratio gate: a pair whose aspect ratios differ by more than the
\* threshold gets similarity 0, an empty matching and no matrix, whatever the
\* elements are; a difference equal to the threshold is not rejected.
C4_AspectRatioGate ==
    (call.made /\ call.before.height # 0) =>
        LET w1 == call.layout1.width
            h1 == call.layout1.height
            w2 == call.before.width
            h2 == call.before.height
            t  == call.aspect_ratio_threshold
            d  == Abs(w1 * h2 - w2 * h1) * t[2]
            b  == t[1] * h1 * h2
        IN  /\ d > b => /\ ~call.out.raised
                        /\ call.out.similarity_score = Zero
                        /\ call.out.matching_pairs = <<>>
                        /\ ~call.out.built
            /\ d = b => call.out.stage # "aspect ratio mismatch"

C4_Witness ==
    /\ call.made
    /\ call.out.stage = "aspect ratio mismatch"
    /\ Len(call.layout1.elements) > 0
    /\ Len(call.before.elements) > 0
    /\ \E i \in DOMAIN call.layout1.elements :
          \E j \in DOMAIN call.before.elements :
             call.layout1.elements[i] = call.before.elements[j]

\* C6: type mask: the weight matrix entry of two elements of different types
\* is exactly 0, and no returned pair connects elements of different types.
C6_TypeMask ==
    (call.made /\ call.out.built) =>
        LET elements1 == call.layout1.elements
            elements2 == call.out.layout2.elements
        IN  /\ \A i \in DOMAIN elements1, j \in DOMAIN elements2 :
                  elements1[i].element_type # elements2[j].element_type
                     => call.out.weight_matrix.w[<<i - 1, j - 1>>] = Zero
            /\ \A k \in DOMAIN call.out.matching_pairs :
                  LET p == call.out.matching_pairs[k]
                  IN  elements1[p[1] + 1].element_type
                         = elements2[p[2] + 1].element_type

C6_Witness ==
    /\ call.made
    /\ call.out.built
    /\ Len(call.out.matching_pairs) > 0
    /\ \E i \in DOMAIN call.layout1.elements :
          \E j \in DOMAIN call.out.layout2.elements :
             /\ call.layout1.elements[i].element_type
                   # call.out.layout2.elements[j].element_type
             /\ box_iou(call.layout1.elements[i].bbox,
                        call.out.layout2.elements[j].bbox) = One

C9_EmptyAndDegenerate ==
    call.made =>
        /\ ( /\ Len(call.layout1.elements) = 0
                \/ Len(call.before.elements) = 0
             /\ call.layout1.width > 0 /\ call.layout1.height > 0
             /\ call.before.width > 0 /\ call.before.height > 0 )
              => /\ ~call.out.raised
                 /\ call.out.similarity_score = Zero
                 /\ call.out.matching_pairs = <<>>
        /\ ~IsNone(call.out.area_matrix) =>
              \A i \in DOMAIN call.layout1.elements :
                 \A j \in DOMAIN call.out.layout2.elements :
                    ( \/ get_area(call.layout1.elements[i]) <= 0
                      \/ get_area(call.out.layout2.elements[j]) <= 0 )
                       => call.out.area_matrix.w[<<i - 1, j - 1>>] = Zero

C9_Witness ==
    /\ call.made
    /\ call.out.stage = "empty"
    /\ Len(call.layout1.elements) = 0
    /\ Len(call.before.elements) > 0
    /\ call.out.layout2 # call.before

----------------------------------------------------------------------------
(* Properties of solve_bipartite_matching, checked under SpecMatching *)

\* the partial matchings of an m x n matrix: sets of cells in which no row
\* and no column occurs twice
PartialMatchings(m, n) ==
    {P \in SUBSET Cells(m, n) :
        \A p, q \in P : p # q => (p[1] # q[1] /\ p[2] # q[2])}

\* C3: for a non-negative weight matrix the returned score is the maximum,
\* over all partial matchings, of the sum of the matched weights.
C3_ScoreIsMaximum ==
    solved.done =>
        /\ ~solved.raised
        /\ \E P \in PartialMatchings(matrix.m, matrix.n) :
              Total(matrix, P) = solved.total_score
        /\ \A P \in PartialMatchings(matrix.m, matrix.n) :
              FLe(Total(matrix, P), solved.total_score)

C3_Witness ==
    /\ solved.done
    /\ matrix.m = 2
    /\ matrix.n = 2
    /\ matrix.w[<<0, 0>>] = One
    /\ matrix.w[<<0, 1>>] = Rat(1, 2)
    /\ matrix.w[<<1, 0>>] = One
    /\ matrix.w[<<1, 1>>] = Zero
    /\ solved.total_score = Rat(3, 2)

\* C5: assignment feasibility: no query index and no reference index occurs
\* in two returned pairs, and every pair (i, j) has 0 <= i < m, 0 <= j < n.
C5_Feasible ==
    solved.done =>
        LET mp == solved.matching_pairs
        IN  /\ \A k, l \in DOMAIN mp :
                  k # l => (mp[k][1] # mp[l][1] /\ mp[k][2] # mp[l][2])
            /\ \A k \in DOMAIN mp :
                  /\ 0 <= mp[k][1] /\ mp[k][1] < matrix.m
                  /\ 0 <= mp[k][2] /\ mp[k][2] < matrix.n

C5_Witness ==
    /\ solved.done
    /\ Len(solved.matching_pairs) = 2
    /\ \A i \in 0..(matrix.m - 1) :
          FLt(matrix.w[<<i, 1>>], matrix.w[<<i, 0>>])

\* C8: every returned pair has a strictly positive weight, and the returned
\* score is exactly the sum of the weights of the returned pairs.
C8_PositivePairsSumToScore ==
    solved.done =>
        LET mp == solved.matching_pairs
        IN  /\ \A k \in DOMAIN mp : FLt(Zero, matrix.w[mp[k]])
            /\ solved.total_score = Total(matrix, {mp[k] : k \in DOMAIN mp})

C8_Witness ==
    /\ solved.done
    /\ matrix.m = 2
    /\ matrix.n >= 2
    /\ Len(solved.matching_pairs) = 1
    /\ \A j \in 0..(matrix.n - 1) : matrix.w[<<1, j>>] = Zero

----------------------------------------------------------------------------
(* Layout.scale(f) followed by Layout.scale(1/f) *)

\* the scale factors a / b > 0
ScaleFactors == {Rat(a, b) : a \in 1..MaxFactor, b \in 1..MaxFactor}

\* 1 / f
Reciprocal(f) == Rat(f[2], f[1])

\* layouts with no element or one element whose box reaches the far corner
ScaledLayouts ==
    UNION {{Layout(<<>>, w, h)} \cup
           {Layout(<<LayoutElement("face", <<x1, y1, w, h>>)>>, w, h) :
               x1 \in {0, w - 1}, y1 \in {0, h - 1}} :
              w \in 1..MaxSide, h \in 1..MaxSide}

InitScale ==
    /\ refs = [r \in RefIds |-> Layout(<<>>, 1, 1)]
    /\ call = NoCall
    /\ first = Unset
    /\ matrix = Zeros(0, 0)
    /\ solved = NoResult
    /\ \E layout \in ScaledLayouts, f \in ScaleFactors :
          roundtrip = [pc |-> "start", original |-> layout,
                       scale_factor |-> f, layout |-> layout]
    /\ sampler = NoSampler
    /\ optimizer = NoOptimizer
    /\ pipeline = NoPipeline

\* layout.scale(f)
ScaleBy ==
    /\ roundtrip.pc = "start"
    /\ roundtrip' = [roundtrip EXCEPT
                       !.pc = "scaled",
                       !.layout = scale(@, roundtrip.scale_factor)]
    /\ UNCHANGED scoreVars
    /\ UNCHANGED <<sampler, optimizer, pipeline>>

\* layout.scale(1 / f)
ScaleBack ==
    /\ roundtrip.pc = "scaled"
    /\ roundtrip' = [roundtrip EXCEPT
                       !.pc = "restored",
                       !.layout = scale(@, Reciprocal(roundtrip.scale_factor))]
    /\ UNCHANGED scoreVars
    /\ UNCHANGED <<sampler, optimizer, pipeline>>

NextScale == ScaleBy \/ ScaleBack

SpecScale == InitScale /\ [][NextScale]_vars

\* the largest distance between a number of the restored layout (width,
\* height, bbox coordinate) and the same number of the original layout
RoundTripError ==
    LET a == roundtrip.original
        b == roundtrip.layout
    IN  Max(Max(Abs(a.width - b.width), Abs(a.height - b.height)),
            IF a.elements = <<>> THEN 0
            ELSE CHOOSE d \in 0..(MaxSide + 1) :
                    /\ \A k \in DOMAIN a.elements, c \in 1..4 :
                          Abs(a.elements[k].bbox[c] - b.elements[k].bbox[c]) <= d
                    /\ \E k \in DOMAIN a.elements, c \in 1..4 :
                          Abs(a.elements[k].bbox[c] - b.elements[k].bbox[c]) = d)

\* ceil(n / d) for n >= 0, d > 0
CeilDiv(n, d) == (n + d - 1) \div d

\* C11 as stated: for every layout and every factor f > 0, scale(f) followed
\* by scale(1/f) leaves width, height and every bbox coordinate within 1
\* pixel of its original value.
C11_RoundTripWithinOnePixel ==
    roundtrip.pc = "restored" => RoundTripError <= 1

\* C11 amended: after scale(f) and scale(1/f) every number of the layout is
\* at most its original value and is below it by at most max(1, ceil(1/f))
\* pixels, so the 1 pixel bound holds for the factors f >= 1.
C11_RoundTripWithinReciprocal ==
    roundtrip.pc = "restored" =>
       /\ RoundTripError <=
             Max(1, CeilDiv(roundtrip.scale_factor[2], roundtrip.scale_factor[1]))
       /\ roundtrip.layout.width <= roundtrip.original.width
       /\ roundtrip.layout.height <= roundtrip.original.height
       /\ \A k \in DOMAIN roundtrip.original.elements, c \in 1..4 :
             roundtrip.layout.elements[k].bbox[c]
                <= roundtrip.original.elements[k].bbox[c]

\* a non-square layout with an element came back from an enlarging factor
\* one pixel short
C11_Witness ==
    /\ roundtrip.pc = "restored"
    /\ FLt(One, roundtrip.scale_factor)
    /\ roundtrip.original.width # roundtrip.original.height
    /\ roundtrip.original.elements # <<>>
    /\ RoundTripError = 1

----------------------------------------------------------------------------
(* State machine of the LayoutGenerator calls *)

\* _random_tree(panels, root_rect, 0) followed by _flatten_tree
TreeCalls ==
    {[NoSampler EXCEPT !.op = "_random_tree", !.pc = "start",
                       !.self = self, !.panels = panels] :
        self \in Generators,
        panels \in UNION {PanelLists(n) : n \in 1..MaxPanels}}

\* the panel lists given to the Monte Carlo loops: none, or two panels
LoopPanelLists == {<<>>} \cup {panels \in PanelLists(2) : panels[1].panel_index = 0}

\* generate_layout(panels) and generate_top_k(panels, k)
GenerateCalls ==
    {[NoSampler EXCEPT !.op = "generate_layout", !.pc = "loop",
                       !.self = self, !.panels = panels] :
        self \in Generators, panels \in LoopPanelLists}
    \cup
    {[NoSampler EXCEPT !.op = "generate_top_k", !.pc = "loop", !.k = k,
                       !.self = self, !.panels = panels] :
        self \in Generators, panels \in LoopPanelLists, k \in 0..MaxK}

InitSampler ==
    /\ refs = [r \in RefIds |-> Layout(<<>>, 1, 1)]
    /\ call = NoCall
    /\ first = Unset
    /\ matrix = Zeros(0, 0)
    /\ solved = NoResult
    /\ roundtrip = NoRoundTrip
    /\ sampler \in TreeCalls \cup GenerateCalls
    /\ optimizer = NoOptimizer
    /\ pipeline = NoPipeline

\* tree = self._random_tree(panels, root_rect, depth=0)
RandomTree ==
    /\ sampler.op = "_random_tree" /\ sampler.pc = "start"
    /\ \E tree \in _random_tree(sampler.self, sampler.panels,
                                root_rect(sampler.self), 0) :
          sampler' = [sampler EXCEPT !.pc = "tree", !.tree = tree]
    /\ UNCHANGED <<scoreVars, roundtrip, optimizer, pipeline>>

\* self._flatten_tree(tree, panels)
FlattenTree ==
    /\ sampler.op = "_random_tree" /\ sampler.pc = "tree"
    /\ sampler' = [sampler EXCEPT
                     !.pc = "flat",
                     !.result = _flatten_tree(sampler.tree, sampler.panels)]
    /\ UNCHANGED <<scoreVars, roundtrip, optimizer, pipeline>>

\* if not panels: return []
ReturnEmpty ==
    /\ sampler.op \in {"generate_layout", "generate_top_k"}
    /\ sampler.pc = "loop" /\ sampler.panels = <<>>
    /\ sampler' = [sampler EXCEPT !.pc = "done", !.result = <<>>]
    /\ UNCHANGED <<scoreVars, roundtrip, optimizer, pipeline>>

\* one trial of generate_layout; `trials` remembers every trial made
GenerateLayoutTrial ==
    /\ sampler.op = "generate_layout" /\ sampler.pc = "loop"
    /\ sampler.panels # <<>> /\ sampler.i < iterations
    /\ \E tree \in _random_tree(sampler.self, sampler.panels,
                                root_rect(sampler.self), 0) :
          LET cost == _score_tree(sampler.self, tree, Len(sampler.panels))
              replace == CostLess(cost, sampler.best_cost)
          IN  sampler' = [sampler EXCEPT
                  !.i = @ + 1,
                  !.best_cost = IF replace THEN cost ELSE @,
                  !.best_tree = IF replace THEN tree ELSE @,
                  !.trials = Append(@, [cost |-> cost, tree |-> tree,
                                        tree_hash |-> _hash_tree(tree)])]
    /\ UNCHANGED <<scoreVars, roundtrip, optimizer, pipeline>>

\* return self._flatten_tree(best_tree, panels)
GenerateLayoutReturn ==
    /\ sampler.op = "generate_layout" /\ sampler.pc = "loop"
    /\ sampler.panels # <<>> /\ sampler.i = iterations
    /\ sampler' = [sampler EXCEPT
                     !.pc = "done",
                     !.result = _flatten_tree(sampler.best_tree,
                                              sampler.panels)]
    /\ UNCHANGED <<scoreVars, roundtrip, optimizer, pipeline>>

\* one trial of generate_top_k: candidates.append((cost, tree, tree_hash))
TopKTrial ==
    /\ sampler.op = "generate_top_k" /\ sampler.pc = "loop"
    /\ sampler.panels # <<>> /\ sampler.i < iterations
    /\ \E tree \in _random_tree(sampler.self, sampler.panels,
                                root_rect(sampler.self), 0) :
          sampler' = [sampler EXCEPT
              !.i = @ + 1,
              !.trials = Append(@, [cost |-> _score_tree(sampler.self, tree,
                                                          Len(sampler.panels)),
                                    tree |-> tree,
                                    tree_hash |-> _hash_tree(tree)])]
    /\ UNCHANGED <<scoreVars, roundtrip, optimizer, pipeline>>

\* the sort and the collection of the k best distinct layouts
TopKReturn ==
    /\ sampler.op = "generate_top_k" /\ sampler.pc = "loop"
    /\ sampler.panels # <<>> /\ sampler.i = iterations
    /\ sampler' = [sampler EXCEPT
                     !.pc = "done",
                     !.result = CollectTopK(SortCandidates(sampler.trials),
                                            sampler.k, sampler.panels,
                                            <<>>, {})]
    /\ UNCHANGED <<scoreVars, roundtrip, optimizer, pipeline>>

NextSampler ==
    \/ RandomTree
    \/ FlattenTree
    \/ ReturnEmpty
    \/ GenerateLayoutTrial
    \/ GenerateLayoutReturn
    \/ TopKTrial
    \/ TopKReturn

SpecSampler == InitSampler /\ [][NextSampler]_vars

----------------------------------------------------------------------------
(* Properties of the LayoutGenerator, checked under SpecSampler *)

PanelIndices(layout) == [k \in DOMAIN layout |-> layout[k].panel_index]

\* the trees the state holds: the one drawn by _random_tree, those of the trials
TreesDrawn ==
    (IF sampler.tree = NoTree THEN {} ELSE {sampler.tree})
       \cup {sampler.trials[t].tree : t \in DOMAIN sampler.trials}

EachPanelOnce(layout, panels) ==
    /\ Len(layout) = Len(panels)
    /\ \A p \in DOMAIN panels :
          Cardinality({k \in DOMAIN layout :
                          layout[k].panel_index = panels[p].panel_index}) = 1

\* C12: for an input panel list of size N >= 1, every flattened layout
\* returned by generate_layout, every flattened layout inside the results of
\* generate_top_k, and the flattening of any tree of _random_tree, has
\* exactly N entries and holds each input panel_index exactly once.
C12_EveryPanelExactlyOnce ==
    /\ (sampler.op = "_random_tree" /\ sampler.pc = "flat")
          => EachPanelOnce(sampler.result, sampler.panels)
    /\ (sampler.op = "generate_layout" /\ sampler.pc = "done"
           /\ sampler.panels # <<>>)
          => EachPanelOnce(sampler.result, sampler.panels)
    /\ (sampler.op = "generate_top_k" /\ sampler.pc = "done")
          => \A e \in DOMAIN sampler.result :
                EachPanelOnce(sampler.result[e].layout, sampler.panels)

\* generate_top_k returned two layouts of a two-panel page that differ in
\* the order of the panels
C12_Witness ==
    /\ sampler.op = "generate_top_k" /\ sampler.pc = "done"
    /\ Len(sampler.panels) = 2
    /\ Len(sampler.result) = 2
    /\ PanelIndices(sampler.result[1].layout)
          # PanelIndices(sampler.result[2].layout)

\* C13: generate_top_k(panels, k) returns at most k entries, no two of them
\* from trees with the same _hash_tree signature, in non-decreasing cost order.
C13_TopKDistinctAndSorted ==
    (sampler.op = "generate_top_k" /\ sampler.pc = "done") =>
       /\ Len(sampler.result) <= sampler.k
       /\ \A a, b \in DOMAIN sampler.result :
             a < b => /\ _hash_tree(sampler.result[a].tree)
                           # _hash_tree(sampler.result[b].tree)
                      /\ ~FLt(sampler.result[b].cost, sampler.result[a].cost)

\* three trials, the cheapest made last, two of them with the same signature
\* but different trees: two entries are returned for k = 2
C13_Witness ==
    /\ sampler.op = "generate_top_k" /\ sampler.pc = "done"
    /\ sampler.k = 2 /\ Len(sampler.result) = 2
    /\ Len(sampler.trials) = 3
    /\ FLt(sampler.trials[3].cost, sampler.trials[1].cost)
    /\ sampler.trials[1].tree_hash = sampler.trials[2].tree_hash
    /\ sampler.trials[1].tree # sampler.trials[2].tree

\* the first trial whose cost no other trial undercuts
FirstCheapest(trials) ==
    CHOOSE m \in DOMAIN trials :
        /\ \A j \in DOMAIN trials : ~FLt(trials[j].cost, trials[m].cost)
        /\ \A j \in 1..(m - 1) : FLt(trials[m].cost, trials[j].cost)

\* C14: after the trial loop of generate_layout the retained tree has the
\* minimum cost among all trials, and among the trials of minimum cost it is
\* the tree of the earliest one.
C14_EarliestCheapestRetained ==
    (sampler.op = "generate_layout" /\ sampler.panels # <<>>
        /\ sampler.i = iterations) =>
       /\ sampler.best_cost = sampler.trials[FirstCheapest(sampler.trials)].cost
       /\ sampler.best_tree = sampler.trials[FirstCheapest(sampler.trials)].tree

\* the cheapest cost was first met in the second trial and met again, with a
\* different tree, in the third
C14_Witness ==
    /\ sampler.op = "generate_layout" /\ sampler.pc = "done"
    /\ Len(sampler.trials) = 3
    /\ FLt(sampler.trials[2].cost, sampler.trials[1].cost)
    /\ sampler.trials[3].cost = sampler.trials[2].cost
    /\ sampler.trials[3].tree # sampler.trials[2].tree

RECURSIVE Subtrees(_)
Subtrees(node) ==
    IF node.type = "leaf" THEN {node}
    ELSE {node} \cup Subtrees(node.left) \cup Subtrees(node.right)

LeafSet(node) == {_get_leaves(node)[k] : k \in DOMAIN _get_leaves(node)}

\* the position in the input list of the panel a leaf stands for
Position(panels, leaf) ==
    CHOOSE k \in DOMAIN panels : panels[k].panel_index = leaf.p_idx

\* every panel under node a comes before every panel under node b
Earlier(panels, a, b) ==
    \A la \in LeafSet(a), lb \in LeafSet(b) :
        Position(panels, la) < Position(panels, lb)

\* the edges of the smallest rectangle around the leaves of a subtree
EdgeLeft(node) ==
    CHOOSE x \in {l.rect.x : l \in LeafSet(node)} :
        \A l \in LeafSet(node) : FLe(x, l.rect.x)
EdgeTop(node) ==
    CHOOSE y \in {l.rect.y : l \in LeafSet(node)} :
        \A l \in LeafSet(node) : FLe(y, l.rect.y)
EdgeRight(node) ==
    CHOOSE x \in {FAdd(l.rect.x, l.rect.w) : l \in LeafSet(node)} :
        \A l \in LeafSet(node) : FLe(FAdd(l.rect.x, l.rect.w), x)
EdgeBottom(node) ==
    CHOOSE y \in {FAdd(l.rect.y, l.rect.h) : l \in LeafSet(node)} :
        \A l \in LeafSet(node) : FLe(FAdd(l.rect.y, l.rect.h), y)

\* C15: at every vertical split under 'rtl' the earlier sub-group is the
\* 'right' child and lies on the geometric right, its x offset by the width
\* of the later sub-group, which is the 'left' child on the left; under 'ltr'
\* the earlier sub-group is the 'left' child on the geometric left; at every
\* horizontal split the earlier sub-group is the 'left' child, on top.
C15_SplitPlacement ==
    \A tree \in TreesDrawn :
       \A node \in Subtrees(tree) :
          node.type = "node" =>
             IF node.split = "H"
             THEN /\ Earlier(sampler.panels, node.left, node.right)
                  /\ EdgeTop(node.left) = EdgeTop(node)
                  /\ EdgeTop(node.right) = EdgeBottom(node.left)
             ELSE IF sampler.self.direction = "rtl"
             THEN /\ Earlier(sampler.panels, node.right, node.left)
                  /\ EdgeLeft(node.left) = EdgeLeft(node)
                  /\ EdgeLeft(node.right) = EdgeRight(node.left)
             ELSE /\ Earlier(sampler.panels, node.left, node.right)
                  /\ EdgeLeft(node.left) = EdgeLeft(node)
                  /\ EdgeLeft(node.right) = EdgeRight(node.left)

\* under 'rtl' a vertical split whose later sub-group is split vertically again
C15_Witness ==
    /\ sampler.op = "_random_tree" /\ sampler.pc = "tree"
    /\ sampler.self.direction = "rtl"
    /\ sampler.tree.type = "node" /\ sampler.tree.split = "V"
    /\ sampler.tree.left.type = "node" /\ sampler.tree.left.split = "V"

\* C16: in the flattened layout returned by generate_layout, and in the
\* flattening of any tree of _random_tree, the panels appear in the same
\* relative order as in the input panel list, for 'ltr' and for 'rtl' and
\* for every tree shape.
C16_FlattenedKeepsInputOrder ==
    (\/ sampler.op = "_random_tree" /\ sampler.pc = "flat"
     \/ sampler.op = "generate_layout" /\ sampler.pc = "done")
       => PanelIndices(sampler.result) = PanelIndices(sampler.panels)

\* the style has structure.depth_0.H = 1.0 and the two panels weigh the same
AlwaysHEqualPair ==
    /\ sampler.self.models.structure[0].H = One
    /\ Len(sampler.panels) = 2
    /\ importance_score(sampler.panels[1]) = importance_score(sampler.panels[2])

\* the height of the top leaf of a two-panel tree over the page height
TopShare(tree) == FDiv(tree.left.rect.h, Rat(sampler.self.h, 1))

\* C17: with structure.depth_0.H = 1.0 and two panels of equal importance,
\* every trial, in either direction, gives a root node with split 'H' whose
\* top leaf takes between 0.45 and 0.55 of the page height.
C17_AlwaysHorizontalNearHalf ==
    AlwaysHEqualPair =>
       \A tree \in TreesDrawn :
          /\ tree.type = "node" /\ tree.split = "H"
          /\ FLe(Rat(9, 20), TopShare(tree))
          /\ FLe(TopShare(tree), Rat(11, 20))

\* three trials under 'ltr' that reached both ends of the interval
C17_Witness ==
    /\ AlwaysHEqualPair
    /\ sampler.op = "generate_layout" /\ sampler.pc = "done"
    /\ sampler.self.direction = "ltr"
    /\ \E t \in DOMAIN sampler.trials :
          TopShare(sampler.trials[t].tree) = Rat(9, 20)
    /\ \E t \in DOMAIN sampler.trials :
          TopShare(sampler.trials[t].tree) = Rat(11, 20)

\* the positions in the input list of the panels under a node
Positions(node) ==
    {k \in DOMAIN sampler.panels :
        \E l \in LeafSet(node) : sampler.panels[k].panel_index = l.p_idx}

\* a non-empty run of consecutive positions
IsSegment(S) == S # {} /\ \A a \in S, b \in S : a..b \subseteq S

\* the first sub-group of a split: grp_a, the 'right' child of a V cut in rtl
FirstGroup(node) ==
    IF node.split = "V" /\ sampler.self.direction = "rtl"
    THEN node.right ELSE node.left
SecondGroup(node) ==
    IF node.split = "V" /\ sampler.self.direction = "rtl"
    THEN node.left ELSE node.right

\* C25: for every non-empty panel list _random_tree returns a tree; the
\* group of the root is the whole list, each split divides its group into a
\* non-empty prefix and the non-empty remaining suffix of the group, a group
\* of one panel is a leaf, and every leaf holds exactly one panel of the list.
C25_SplitsIntoPrefixAndSuffix ==
    /\ (sampler.op = "_random_tree" /\ sampler.pc = "start")
          => _random_tree(sampler.self, sampler.panels,
                          root_rect(sampler.self), 0) # {}
    /\ \A tree \in TreesDrawn :
          /\ Positions(tree) = 1..Len(sampler.panels)
          /\ Len(sampler.panels) = 1 => tree.type = "leaf"
          /\ \A node \in Subtrees(tree) :
                /\ Cardinality(Positions(node)) = Len(_get_leaves(node))
                /\ node.type = "node" =>
                      /\ IsSegment(Positions(node))
                      /\ IsSegment(Positions(FirstGroup(node)))
                      /\ IsSegment(Positions(SecondGroup(node)))
                      /\ Positions(FirstGroup(node))
                            \cup Positions(SecondGroup(node)) = Positions(node)
                      /\ \A a \in Positions(FirstGroup(node)),
                            b \in Positions(SecondGroup(node)) : a < b

\* three panels, the root split after the second one and the prefix split again
C25_Witness ==
    /\ sampler.op = "_random_tree" /\ sampler.pc = "tree"
    /\ Len(sampler.panels) = 3
    /\ sampler.tree.type = "node"
    /\ FirstGroup(sampler.tree).type = "node"
    /\ Positions(FirstGroup(sampler.tree)) = {1, 2}
    /\ Positions(SecondGroup(sampler.tree)) = {3}

\* the tree the last step drew: that of _random_tree, or that of the last
\* trial; the trials are only appended to, so every tree of a state is the
\* last one drawn of an earlier state
LastTreeDrawn ==
    (IF sampler.tree = NoTree THEN {} ELSE {sampler.tree})
       \cup (IF sampler.trials = <<>> THEN {}
             ELSE {sampler.trials[Len(sampler.trials)].tree})

\* the sum of the importance scores of the panels at a set of positions
Weight(S) ==
    SumImportance([k \in 1..Cardinality(S) |->
                      sampler.panels[CHOOSE p \in S :
                                        Cardinality({q \in S : q < p}) = k - 1]])

\* the importance share of the first sub-group of a split, 0.5 without weight
Share(node) ==
    IF Weight(Positions(node)) > 0
    THEN Rat(Weight(Positions(FirstGroup(node))), Weight(Positions(node)))
    ELSE Rat(1, 2)

\* the exact quotient a / b of a length by a length, common factors
\* cancelled before the multiplications
Quotient(a, b) ==
    IF IsNaN(a) \/ IsNaN(b) \/ b[1] <= 0 THEN NaN
    ELSE LET g == GCD(Abs(a[1]), b[1])
             h == GCD(a[2], b[2])
         IN  Rat((a[1] \div g) * (b[2] \div h), (a[2] \div h) * (b[1] \div g))

\* the part of the rectangle of a split that its first sub-group received
AppliedRatio(node) ==
    IF node.split = "H"
    THEN Quotient(FSub(EdgeBottom(FirstGroup(node)), EdgeTop(FirstGroup(node))),
                  FSub(EdgeBottom(node), EdgeTop(node)))
    ELSE Quotient(FSub(EdgeRight(FirstGroup(node)), EdgeLeft(FirstGroup(node))),
                  FSub(EdgeRight(node), EdgeLeft(node)))

Clamp(x) == FMax(Rat(1, 5), FMin(Rat(4, 5), x))

\* C26: at every split the ratio applied to the rectangle is the importance
\* share of the first sub-group (missing scores counted as 5, 0.5 when the
\* total is not positive) plus a jitter within [-0.05, 0.05], clamped into
\* [0.2, 0.8]: it lies between the clamped share - 0.05 and the clamped
\* share + 0.05, and so within [0.2, 0.8].
C26_RatioIsClampedShare ==
    \A tree \in LastTreeDrawn :
       \A node \in Subtrees(tree) :
          node.type = "node" =>
             LET share == Share(node)
                 applied == AppliedRatio(node)
             IN  /\ FLe(Clamp(FSub(share, Rat(1, 20))), applied)
                 /\ FLe(applied, Clamp(FAdd(share, Rat(1, 20))))
                 /\ FLe(Rat(1, 5), applied)
                 /\ FLe(applied, Rat(4, 5))

\* a root share of 4/5 whose jitter of +0.05 was clamped away, above a split
\* with share 3/4 that the jitter raised to 0.8
C26_Witness ==
    /\ sampler.op = "_random_tree" /\ sampler.pc = "tree"
    /\ Len(sampler.panels) = 3
    /\ sampler.tree.type = "node"
    /\ Share(sampler.tree) = Rat(4, 5)
    /\ AppliedRatio(sampler.tree) = Rat(4, 5)
    /\ FirstGroup(sampler.tree).type = "node"
    /\ AppliedRatio(FirstGroup(sampler.tree)) = Rat(4, 5)

\* the area of a rectangle of the given width and height, as a part of the
\* area of the page
PartOfPage(width, height) ==
    FMul(Quotient(width, Rat(sampler.self.w, 1)),
         Quotient(height, Rat(sampler.self.h, 1)))

\* the area of the smallest rectangle around the leaves of a subtree
BoxArea(node) ==
    PartOfPage(FSub(EdgeRight(node), EdgeLeft(node)),
               FSub(EdgeBottom(node), EdgeTop(node)))

\* the sum of the areas of the leaves of a subtree
LeavesArea(node) ==
    LET leaves == _get_leaves(node)
    IN  np_sum([k \in DOMAIN leaves |->
                   PartOfPage(leaves[k].rect.w, leaves[k].rect.h)])

\* two leaf rectangles have no inner point in common
InteriorDisjoint(a, b) ==
    \/ FLe(FAdd(a.rect.x, a.rect.w), b.rect.x)
    \/ FLe(FAdd(b.rect.x, b.rect.w), a.rect.x)
    \/ FLe(FAdd(a.rect.y, a.rect.h), b.rect.y)
    \/ FLe(FAdd(b.rect.y, b.rect.h), a.rect.y)

\* C28: in every tree of _random_tree the rectangles of the two children of
\* a split lie side by side (V) or one upon the other (H) and fill the
\* rectangle of the split, that of the root being the page; the leaf
\* rectangles lie inside the page, have positive width and height, are
\* pairwise interior-disjoint and their areas sum to page_width * page_height
\* (areas are counted as parts of the area of the page, which they sum to 1).
C28_PageTiling ==
    \A tree \in LastTreeDrawn :
       /\ EdgeLeft(tree) = Zero /\ EdgeTop(tree) = Zero
       /\ EdgeRight(tree) = Rat(sampler.self.w, 1)
       /\ EdgeBottom(tree) = Rat(sampler.self.h, 1)
       /\ LeavesArea(tree) = One
       /\ \A l \in LeafSet(tree) :
             /\ FLt(Zero, l.rect.w) /\ FLt(Zero, l.rect.h)
             /\ FLe(Zero, l.rect.x) /\ FLe(Zero, l.rect.y)
             /\ FLe(FAdd(l.rect.x, l.rect.w), Rat(sampler.self.w, 1))
             /\ FLe(FAdd(l.rect.y, l.rect.h), Rat(sampler.self.h, 1))
       /\ LET leaves == _get_leaves(tree)
          IN  \A a \in DOMAIN leaves, b \in DOMAIN leaves :
                 a # b => InteriorDisjoint(leaves[a], leaves[b])
       /\ \A node \in Subtrees(tree) :
             node.type = "node" =>
                /\ LET area == BoxArea(node)
                   IN  /\ area = LeavesArea(node)
                       /\ area = FAdd(BoxArea(node.left), BoxArea(node.right))
                /\ IF node.split = "H"
                   THEN /\ EdgeLeft(node.left) = EdgeLeft(node.right)
                        /\ EdgeRight(node.left) = EdgeRight(node.right)
                        /\ EdgeBottom(node.left) = EdgeTop(node.right)
                   ELSE /\ EdgeTop(node.left) = EdgeTop(node.right)
                        /\ EdgeBottom(node.left) = EdgeBottom(node.right)
                        /\ EdgeRight(node.left) = EdgeLeft(node.right)

\* three panels of unequal weight cut both ways, the ratios off the middle
C28_Witness ==
    /\ sampler.op = "_random_tree" /\ sampler.pc = "tree"
    /\ Len(sampler.panels) = 3
    /\ sampler.tree.type = "node" /\ sampler.tree.split = "H"
    /\ AppliedRatio(sampler.tree) = Rat(13, 20)
    /\ \E child \in {sampler.tree.left, sampler.tree.right} :
          /\ child.type = "node" /\ child.split = "V"
          /\ AppliedRatio(child) # Rat(1, 2)

----------------------------------------------------------------------------
(* State machine of the LayoutOptimizer calls *)

NumCuts(tree) == Len(_collect_nodes(tree))

\* _energy_function(x, tree, nodes, meta), as minimize calls it
EnergyCalls ==
    {[NoOptimizer EXCEPT !.op = "_energy_function", !.pc = "start",
                         !.self = LayoutOptimizer(160, 40, 20),
                         !.tree = call_[1], !.x = call_[2], !.meta = meta] :
        call_ \in UNION {{<<tree, x>> : x \in ParamVectors(NumCuts(tree))} :
                            tree \in OptTrees},
        meta \in Metas}

\* optimize(layout_tree, panels_metadata); x is the point minimize ends at
OptimizeCalls ==
    {[NoOptimizer EXCEPT !.op = "optimize", !.pc = "start",
                         !.self = self,
                         !.tree = call_[1], !.x = call_[2],
                         !.meta = [k \in 1..4 |->
                                      [panel_index |-> k - 1,
                                       importance_score |-> 5]]] :
        call_ \in UNION {{<<tree, x>> : x \in ParamVectors(NumCuts(tree))} :
                            tree \in OptTrees},
        self \in Optimizers}

InitOptimizer ==
    /\ refs = [r \in RefIds |-> Layout(<<>>, 1, 1)]
    /\ call = NoCall
    /\ first = Unset
    /\ matrix = Zeros(0, 0)
    /\ solved = NoResult
    /\ roundtrip = NoRoundTrip
    /\ sampler = NoSampler
    /\ optimizer \in EnergyCalls \cup OptimizeCalls
    /\ pipeline = NoPipeline

\* final_panels = self._tree_to_panels(tree, x, meta), in a call of
\* _energy_function from outside minimize
EnergyFunction ==
    /\ optimizer.op = "_energy_function" /\ optimizer.pc = "start"
    /\ LET out == _tree_to_panels(optimizer.self, optimizer.tree, optimizer.x)
       IN  IF out.raised
           THEN optimizer' =
                    [optimizer EXCEPT !.pc = "raised", !.result.raised = TRUE]
           ELSE optimizer' =
                    [optimizer EXCEPT !.pc = "cost", !.point = optimizer.x,
                                      !.final_panels = out.results]
    /\ UNCHANGED <<scoreVars, roundtrip, sampler, pipeline>>

\* nodes = self._collect_nodes(layout_tree); without a cut the panels of
\* _tree_to_panels are returned as they are, otherwise minimize starts at x0
Optimize ==
    /\ optimizer.op = "optimize" /\ optimizer.pc = "start"
    /\ IF NumCuts(optimizer.tree) = 0
       THEN LET out == _tree_to_panels(optimizer.self, optimizer.tree, <<>>)
            IN  optimizer' =
                    [optimizer EXCEPT !.pc = "returned",
                                      !.result.results = out.results]
       ELSE optimizer' =
                [optimizer EXCEPT !.pc = "minimize",
                                  !.point = x0(NumCuts(optimizer.tree))]
    /\ UNCHANGED <<scoreVars, roundtrip, sampler, pipeline>>

\* minimize calls _energy_function at x0 and at further points within the
\* bounds, for which the point x of the call stands; an exception leaves
\* minimize and optimize
MinimizeCall ==
    /\ optimizer.op = "optimize" /\ optimizer.pc = "minimize"
    /\ LET out == _tree_to_panels(optimizer.self, optimizer.tree,
                                  optimizer.point)
       IN  IF out.raised
           THEN optimizer' =
                    [optimizer EXCEPT !.pc = "raised", !.result.raised = TRUE]
           ELSE optimizer' =
                    [optimizer EXCEPT !.pc = "cost",
                                      !.final_panels = out.results]
    /\ UNCHANGED <<scoreVars, roundtrip, sampler, pipeline>>

\* the loop of _energy_function over final_panels and its return; L-BFGS-B
\* ends at the point of the lowest cost it has called the function at
EnergyCost ==
    /\ optimizer.pc = "cost"
    /\ LET total_cost == TotalCost(optimizer.self, optimizer.final_panels,
                                   optimizer.meta)
       IN  IF optimizer.op = "_energy_function"
           THEN optimizer' =
                    [optimizer EXCEPT !.pc = "returned",
                                      !.result.total_cost = total_cost]
           ELSE IF optimizer.calls = 0
           THEN optimizer' =
                    [optimizer EXCEPT !.pc = "minimize", !.calls = 1,
                                      !.cost = total_cost,
                                      !.res_x = optimizer.point,
                                      !.point = optimizer.x]
           ELSE optimizer' =
                    [optimizer EXCEPT
                       !.pc = "shapes", !.calls = 2,
                       !.res_x = IF FLe(total_cost, optimizer.cost)
                                 THEN optimizer.point ELSE @]
    /\ UNCHANGED <<scoreVars, roundtrip, sampler, pipeline>>

\* raw_panels = self._tree_to_panels(layout_tree, res.x, panels_metadata)
FinalShapes ==
    /\ optimizer.op = "optimize" /\ optimizer.pc = "shapes"
    /\ LET out == _tree_to_panels(optimizer.self, optimizer.tree,
                                  optimizer.res_x)
       IN  IF out.raised
           THEN optimizer' =
                    [optimizer EXCEPT !.pc = "raised", !.result.raised = TRUE]
           ELSE optimizer' =
                    [optimizer EXCEPT !.pc = "gutters",
                                      !.raw_panels = out.results]
    /\ UNCHANGED <<scoreVars, roundtrip, sampler, pipeline>>

\* return self._apply_gutters(raw_panels)
ApplyGutters ==
    /\ optimizer.op = "optimize" /\ optimizer.pc = "gutters"
    /\ LET out == _apply_gutters(optimizer.self, optimizer.raw_panels)
       IN  IF out.raised
           THEN optimizer' =
                    [optimizer EXCEPT !.pc = "raised", !.result.raised = TRUE]
           ELSE optimizer' =
                    [optimizer EXCEPT !.pc = "returned",
                                      !.result.results = out.results]
    /\ UNCHANGED <<scoreVars, roundtrip, sampler, pipeline>>

NextOptimizer ==
    \/ EnergyFunction \/ EnergyCost
    \/ Optimize \/ MinimizeCall \/ FinalShapes \/ ApplyGutters

SpecOptimizer == InitOptimizer /\ [][NextOptimizer]_vars

----------------------------------------------------------------------------
(* Claims about the LayoutOptimizer *)

\* the panels before the gutters
RawPanels == optimizer.raw_panels

\* q lies in the convex polygon poly or on its border: left of no edge,
\* the vertices running as those of the page do
Inside(q, poly) ==
    \A i \in DOMAIN poly :
        LET a == poly[IF i = 1 THEN Len(poly) ELSE i - 1]
            b == poly[i]
        IN  FLe(Zero,
                FSub(FMul(FSub(b[1], a[1]), FSub(q[2], a[2])),
                     FMul(FSub(b[2], a[2]), FSub(q[1], a[1]))))

\* the bounding box of poly is at most 2 * px wide or at most 2 * px high
TooSmall(poly, px) ==
    \/ FLe(FSub(np_max(Xs(poly)), np_min(Xs(poly))), Rat(2 * px, 1))
    \/ FLe(FSub(np_max(Ys(poly)), np_min(Ys(poly))), Rat(2 * px, 1))

\* C18: every polygon optimize returns for a tree with cuts has the vertices
\* of the polygon before the gutters moved to points inside that polygon; it
\* is that polygon itself when its bounding box is at most twice the gutter
\* in a dimension, and when the gutter is 0
C18_GutterShrinkContained ==
    (optimizer.op = "optimize" /\ optimizer.pc = "returned"
        /\ NumCuts(optimizer.tree) > 0) =>
        /\ Len(optimizer.result.results) = Len(RawPanels)
        /\ \A i \in DOMAIN RawPanels :
              LET before == RawPanels[i].polygon
                  after  == optimizer.result.results[i].polygon
              IN  /\ Len(after) = Len(before)
                  /\ \A k \in DOMAIN after : Inside(after[k], before)
                  /\ TooSmall(before, optimizer.self.gutter)
                        => after = before
                  /\ optimizer.self.gutter = 0 => after = before

\* a panel with a slanted side that the gutter has shrunk
C18_Witness ==
    /\ optimizer.op = "optimize" /\ optimizer.pc = "returned"
    /\ optimizer.self.gutter > 0
    /\ \E i \in DOMAIN RawPanels :
          LET before == RawPanels[i].polygon
              after  == optimizer.result.results[i].polygon
          IN  /\ after # before
              /\ \E k \in DOMAIN before :
                    /\ before[k][1] # before[(k % Len(before)) + 1][1]
                    /\ before[k][2] # before[(k % Len(before)) + 1][2]

\* C19: for a tree of a single leaf optimize returns one panel, the page
\* after the gutters have been applied to it
C19_SingleLeafGutterShrunk ==
    (optimizer.op = "optimize" /\ optimizer.pc = "returned"
        /\ NumCuts(optimizer.tree) = 0) =>
        optimizer.result.results =
            _apply_gutters(optimizer.self,
                           <<[panel_index |-> optimizer.tree.p_idx,
                              polygon |-> page_poly(optimizer.self)]>>).results

\* the number of the panels of fewer than 3 vertices
Collapsed(panels) ==
    Cardinality({i \in DOMAIN panels : Len(panels[i].polygon) < 3})

\* C20: a call of _energy_function with parameters within the bounds does
\* not raise, and its cost holds 10000 for every panel of fewer than 3
\* vertices
C20_CollapseAbsorbed ==
    /\ optimizer.op = "_energy_function" => optimizer.pc # "raised"
    /\ (optimizer.op = "_energy_function" /\ optimizer.pc = "returned") =>
          FLe(Rat(10000 * Collapsed(optimizer.final_panels), 1),
              optimizer.result.total_cost)

RECURSIVE NumLeaves(_)
NumLeaves(node) ==
    IF node.type = "leaf" THEN 1
    ELSE NumLeaves(node.left) + NumLeaves(node.right)

\* the calls of _clip_polygon made while a tree is sliced, each with the
\* places in the list of results of the leaves left and right of the cut:
\* the leaves first + 1 .. middle are under node.left, middle + 1 .. last
\* under node.right
RECURSIVE ClipCalls(_, _, _, _, _)
ClipCalls(node, poly, params, i, first_leaf) ==
    IF node.type = "leaf" \/ Len(poly) = 0 THEN {}
    ELSE LET cut    == CutLine(node.split, poly, ParamOf(params, i)[1],
                               ParamOf(params, i)[2])
             halves == _clip_polygon(poly, cut.normal, cut.P0)
         IN  {[poly |-> poly, normal |-> cut.normal, origin |-> cut.P0,
               negative |-> halves.new_poly_negative,
               positive |-> halves.new_poly_positive,
               first  |-> first_leaf,
               middle |-> first_leaf + NumLeaves(node.left),
               last   |-> first_leaf + NumLeaves(node)]}
             \cup ClipCalls(node.left, halves.new_poly_negative, params,
                            i + 1, first_leaf)
             \cup ClipCalls(node.right, halves.new_poly_positive, params,
                            i + 1 + NumCuts(node.left),
                            first_leaf + NumLeaves(node.left))

\* the signed distance of a point from the cut line of a call
Distance(c, p) ==
    FAdd(FMul(c.normal[1], FSub(p[1], c.origin[1])),
         FMul(c.normal[2], FSub(p[2], c.origin[2])))

\* the vertices of a polygon on one side of the line (side 1, -1) or on it (0)
RECURSIVE OnSide(_, _, _)
OnSide(c, poly, side) ==
    IF poly = <<>> THEN <<>>
    ELSE LET d == Distance(c, Head(poly))
             here == \/ side = 1 /\ FLt(Zero, d)
                     \/ side = 0 /\ d = Zero
                     \/ side = -1 /\ FLt(d, Zero)
         IN  (IF here THEN <<Head(poly)>> ELSE <<>>)
                \o OnSide(c, Tail(poly), side)

\* the edges, named by their end vertex, whose ends are on opposite sides
Crossing(c) ==
    {k \in DOMAIN c.poly :
        LET prev == c.poly[IF k = 1 THEN Len(c.poly) ELSE k - 1]
        IN  FLt(Distance(c, prev), Zero) # FLt(Distance(c, c.poly[k]), Zero)}

\* the point of the edge ending at vertex k that divides it as the distances
\* of its ends divide it
Interpolated(c, k) ==
    LET prev == c.poly[IF k = 1 THEN Len(c.poly) ELSE k - 1]
        curr == c.poly[k]
        t    == FDiv(Distance(c, prev),
                     FSub(Distance(c, prev), Distance(c, curr)))
    IN  <<FAdd(prev[1], FMul(t, FSub(curr[1], prev[1]))),
          FAdd(prev[2], FMul(t, FSub(curr[2], prev[2])))>>

\* C27: in every call of _clip_polygon made while the page is sliced, the
\* vertices of the polygon at a signed distance >= 0 from the cut line are
\* in the positive output and those at a distance < 0 in the negative one,
\* each once and in the order of the input; for every edge with its ends on
\* opposite sides the point interpolated between them, which lies on the
\* line, is in both outputs, and nothing else is; the panels of the leaves
\* under the left child come from the negative output and those under the
\* right child from the positive one.
C27_HalfPlaneClip ==
    optimizer.pc = "cost" =>
       \A c \in ClipCalls(optimizer.tree, page_poly(optimizer.self),
                          optimizer.point, 1, 0) :
          /\ OnSide(c, c.positive, 1) = OnSide(c, c.poly, 1)
          /\ OnSide(c, c.negative, -1) = OnSide(c, c.poly, -1)
          /\ OnSide(c, c.positive, -1) = <<>>
          /\ OnSide(c, c.negative, 1) = <<>>
          /\ Len(OnSide(c, c.negative, 0)) = Cardinality(Crossing(c))
          /\ Len(OnSide(c, c.positive, 0)) =
                Cardinality(Crossing(c)) + Len(OnSide(c, c.poly, 0))
          /\ \A k \in Crossing(c) :
                /\ Distance(c, Interpolated(c, k)) = Zero
                /\ \E m \in DOMAIN c.negative :
                      c.negative[m] = Interpolated(c, k)
                /\ \E m \in DOMAIN c.positive :
                      c.positive[m] = Interpolated(c, k)
          /\ \A j \in (c.first + 1)..c.middle :
                OnSide(c, optimizer.final_panels[j].polygon, 1) = <<>>
          /\ \A j \in (c.middle + 1)..c.last :
                OnSide(c, optimizer.final_panels[j].polygon, -1) = <<>>

\* a tilted cut of the page across two of its edges, over a second cut
C27_Witness ==
    /\ optimizer.pc = "cost"
    /\ NumCuts(optimizer.tree) >= 2
    /\ \E c \in ClipCalls(optimizer.tree, page_poly(optimizer.self),
                          optimizer.point, 1, 0) :
          /\ c.poly = page_poly(optimizer.self)
          /\ c.normal[1] # Zero /\ c.normal[2] # Zero
          /\ Cardinality(Crossing(c)) = 2
          /\ Len(c.negative) = 4 /\ Len(c.positive) = 4
          /\ c.last - c.middle = 1 /\ c.middle - c.first >= 2

\* the panel indices of the leaves of a tree, from left to right
LeafIndices(tree) ==
    [k \in DOMAIN _get_leaves(tree) |-> _get_leaves(tree)[k].p_idx]

\* C29: for a tree of N leaves every call of _tree_to_panels, from
\* _energy_function or from optimize, returns, and so does optimize: N entries
\* that carry the panel indices of the leaves in their order from left to
\* right; the tree has N - 1 split nodes.
C29_OneEntryPerLeaf ==
    /\ optimizer.pc # "raised"
    /\ NumCuts(optimizer.tree) = NumLeaves(optimizer.tree) - 1
    /\ optimizer.pc = "cost" =>
          PanelIndices(optimizer.final_panels) = LeafIndices(optimizer.tree)
    /\ optimizer.pc = "gutters" =>
          PanelIndices(optimizer.raw_panels) = LeafIndices(optimizer.tree)
    /\ (optimizer.op = "optimize" /\ optimizer.pc = "returned") =>
          PanelIndices(optimizer.result.results) = LeafIndices(optimizer.tree)

----------------------------------------------------------------------------
(* Stages of the pipeline around the layout engine: the corpus query of
   src/lib/layout/layout.py, the boxes of src/lib/image/controlnet.py and
   the choice of the winner in src/pipeline1.py and src/src/pipeline.py.

   Where a result is truncated or compared, the floats are rounded as the
   code's are: every operation gives the float nearest to the exact result,
   ties to the even significand.  The significand has MantissaBits bits, few
   enough for the values to stay within the integers of the checker, where
   a double has 53; the exponent is not limited. *)

MantissaBits == 8       \* bits of the significand of a float
MaxCanvas == 5          \* width and height of a canvas given to adjust
MaxRecords == 2         \* records of a corpus entry
MaxPeople == 2          \* people of a detection
MaxVariations == 2      \* variations of a panel

RECURSIVE Pow2(_)
Pow2(k) == IF k = 0 THEN 1 ELSE 2 * Pow2(k - 1)

\* a / d > 0 rounded to MantissaBits significant bits, times the weight w
RECURSIVE RoundScaled(_, _, _)
RoundScaled(a, d, w) ==
    IF a < Pow2(MantissaBits - 1) * d
    THEN IF d % 2 = 0
         THEN RoundScaled(a, d \div 2, FMul(w, Rat(1, 2)))
         ELSE RoundScaled(2 * a, d, FMul(w, Rat(1, 2)))
    ELSE IF a >= Pow2(MantissaBits) * d
    THEN RoundScaled(a, 2 * d, FMul(w, Rat(2, 1)))
    ELSE LET q  == a \div d
             r  == a % d
             up == 2 * r > d \/ (2 * r = d /\ q % 2 = 1)
         IN  FMul(Rat(IF up THEN q + 1 ELSE q, 1), w)

\* the float nearest to the rational x
Fl(x) ==
    IF x[2] = 0 \/ x[1] = 0 THEN x
    ELSE IF x[1] > 0 THEN RoundScaled(x[1], x[2], One)
    ELSE FNeg(RoundScaled(-x[1], x[2], One))

\* a / b, a * b, a + b and a - b of floats (or of an int and a float)
FlDiv(a, b) == Fl(FDiv(a, b))
FlMul(a, b) == Fl(FMul(a, b))
FlAdd(a, b) == Fl(FAdd(a, b))
FlSub(a, b) == Fl(FSub(a, b))

\* MangaLayout(image_path, width, height, elements, unrelated_text_length);
\* an element is taken for its bbox
MangaLayout(image_path, width, height, elements, unrelated_text_length) ==
    [image_path |-> image_path, width |-> width, height |-> height,
     elements |-> elements, unrelated_text_length |-> unrelated_text_length]

\* the boxes scaled by the first stage only
adjustLetterboxOnly(self, base_width, base_height) ==
    LET original_width  == Rat(self.width, 1)
        original_height == Rat(self.height, 1)
        target_aspect_ratio   == FlDiv(Rat(base_width, 1), Rat(base_height, 1))
        original_aspect_ratio == FlDiv(original_width, original_height)
        wide == FLt(target_aspect_ratio, original_aspect_ratio)
        new_width  == IF wide THEN self.width
                      ELSE FInt(FlMul(original_height, target_aspect_ratio))
        new_height == IF wide
                      THEN FInt(FlDiv(original_width, target_aspect_ratio))
                      ELSE self.height
        width_scale_1  == FlDiv(Rat(new_width, 1), original_width)
        height_scale_1 == FlDiv(Rat(new_height, 1), original_height)
        coordinate(bbox, k) ==
            FInt(FlMul(Rat(bbox[k], 1),
                       IF k \in {1, 3} THEN width_scale_1
                       ELSE height_scale_1))
    IN  IF new_width = 0 \/ new_height = 0
        THEN [raised |-> TRUE, self |-> self]
        ELSE [raised |-> FALSE,
              self |-> [self EXCEPT
                  !.width = base_width, !.height = base_height,
                  !.elements = [e \in DOMAIN self.elements |->
                                   [k \in 1..4 |->
                                       coordinate(self.elements[e], k)]]]]

\* self.adjust(base_width, base_height): the layout afterwards; the division
\* by a letterboxed dimension that is 0 raises ZeroDivisionError
adjust(self, base_width, base_height) ==
    LET original_width  == Rat(self.width, 1)
        original_height == Rat(self.height, 1)
        target_aspect_ratio   == FlDiv(Rat(base_width, 1), Rat(base_height, 1))
        original_aspect_ratio == FlDiv(original_width, original_height)
        wide == FLt(target_aspect_ratio, original_aspect_ratio)
        new_width  == IF wide THEN self.width
                      ELSE FInt(FlMul(original_height, target_aspect_ratio))
        new_height == IF wide
                      THEN FInt(FlDiv(original_width, target_aspect_ratio))
                      ELSE self.height
        width_scale_1  == FlDiv(Rat(new_width, 1), original_width)
        height_scale_1 == FlDiv(Rat(new_height, 1), original_height)
        final_width_scale  == FlDiv(Rat(base_width, 1), Rat(new_width, 1))
        final_height_scale == FlDiv(Rat(base_height, 1), Rat(new_height, 1))
        total_width_scale  == FlMul(width_scale_1, final_width_scale)
        total_height_scale == FlMul(height_scale_1, final_height_scale)
        coordinate(bbox, k) ==
            FInt(FlMul(Rat(bbox[k], 1),
                       IF k \in {1, 3} THEN total_width_scale
                       ELSE total_height_scale))
    IN  IF new_width = 0 \/ new_height = 0
        THEN [raised |-> TRUE, self |-> self]
        ELSE [raised |-> FALSE,
              self |-> [self EXCEPT
                  !.width = base_width, !.height = base_height,
                  !.elements = [e \in DOMAIN self.elements |->
                                   [k \in 1..4 |->
                                       coordinate(self.elements[e], k)]]]]

\* the layout of one record of the corpus: the boxes of the speakers, then
\* those of the others
_generate_layout_from_metadata(metadata) ==
    MangaLayout(metadata.image_path, metadata.width, metadata.height,
                metadata.speaker_objects \o metadata.non_speaker_objects,
                metadata.unrelated_text_length)

\* a signature without an entry gives an empty list
from_conditionEmptyForMissingKey(annfile, num_speakers, num_non_speakers, base_text_length, text_length_threshold, base_width, base_height, aspect_ratio_threshold, do_adjust) ==
    LET key == ToString(num_speakers) \o "_" \o ToString(num_non_speakers)
        base_aspect_ratio ==
            FlDiv(Rat(base_width, 1), Rat(base_height, 1))
        skipped(metadata) ==
            LET aspect_ratio ==
                    FlDiv(Rat(metadata.width, 1), Rat(metadata.height, 1))
            IN  \/ metadata.unrelated_text_length
                      < base_text_length - text_length_threshold
                \/ metadata.unrelated_text_length
                      > base_text_length + text_length_threshold
                \/ FLt(aspect_ratio,
                       FlSub(base_aspect_ratio, aspect_ratio_threshold))
                \/ FLt(FlAdd(base_aspect_ratio, aspect_ratio_threshold),
                       aspect_ratio)
        RECURSIVE loop(_, _)
        loop(i, layouts) ==
            IF i > Len(annfile.ann[key])
            THEN [raised |-> "none", layouts |-> layouts]
            ELSE IF skipped(annfile.ann[key][i]) THEN loop(i + 1, layouts)
            ELSE LET layout ==
                         _generate_layout_from_metadata(annfile.ann[key][i])
                     adjusted == adjust(layout, base_width, base_height)
                 IN  IF ~do_adjust THEN loop(i + 1, Append(layouts, layout))
                     ELSE IF adjusted.raised
                     THEN [raised |-> "ZeroDivisionError", layouts |-> <<>>]
                     ELSE loop(i + 1, Append(layouts, adjusted.self))
    IN  IF ~annfile.exists
        THEN [raised |-> "FileNotFoundError", layouts |-> <<>>]
        ELSE IF ~annfile.isfile
        THEN [raised |-> "IsADirectoryError", layouts |-> <<>>]
        ELSE IF key \notin DOMAIN annfile.ann
        THEN [raised |-> "none", layouts |-> <<>>]
        ELSE loop(1, <<>>)

\* the records at the ends of the two intervals are skipped as well
from_conditionOpenIntervals(annfile, num_speakers, num_non_speakers, base_text_length, text_length_threshold, base_width, base_height, aspect_ratio_threshold, do_adjust) ==
    LET key == ToString(num_speakers) \o "_" \o ToString(num_non_speakers)
        base_aspect_ratio ==
            FlDiv(Rat(base_width, 1), Rat(base_height, 1))
        skipped(metadata) ==
            LET aspect_ratio ==
                    FlDiv(Rat(metadata.width, 1), Rat(metadata.height, 1))
            IN  \/ metadata.unrelated_text_length
                      <= base_text_length - text_length_threshold
                \/ metadata.unrelated_text_length
                      >= base_text_length + text_length_threshold
                \/ FLe(aspect_ratio,
                       FlSub(base_aspect_ratio, aspect_ratio_threshold))
                \/ FLe(FlAdd(base_aspect_ratio, aspect_ratio_threshold),
                       aspect_ratio)
        RECURSIVE loop(_, _)
        loop(i, layouts) ==
            IF i > Len(annfile.ann[key])
            THEN [raised |-> "none", layouts |-> layouts]
            ELSE IF skipped(annfile.ann[key][i]) THEN loop(i + 1, layouts)
            ELSE LET layout ==
                         _generate_layout_from_metadata(annfile.ann[key][i])
                     adjusted == adjust(layout, base_width, base_height)
                 IN  IF ~do_adjust THEN loop(i + 1, Append(layouts, layout))
                     ELSE IF adjusted.raised
                     THEN [raised |-> "ZeroDivisionError", layouts |-> <<>>]
                     ELSE loop(i + 1, Append(layouts, adjusted.self))
    IN  IF ~annfile.exists
        THEN [raised |-> "FileNotFoundError", layouts |-> <<>>]
        ELSE IF ~annfile.isfile
        THEN [raised |-> "IsADirectoryError", layouts |-> <<>>]
        ELSE IF key \notin DOMAIN annfile.ann
        THEN [raised |-> "ValueError", layouts |-> <<>>]
        ELSE loop(1, <<>>)

\* from_condition(annfile, ...): what it raises or the list it returns.  The
\* file annfile is what os.path tells of it and, for a regular file, the
\* mapping json.load gives
from_condition(annfile, num_speakers, num_non_speakers, base_text_length, text_length_threshold, base_width, base_height, aspect_ratio_threshold, do_adjust) ==
    LET key == ToString(num_speakers) \o "_" \o ToString(num_non_speakers)
        base_aspect_ratio ==
            FlDiv(Rat(base_width, 1), Rat(base_height, 1))
        skipped(metadata) ==
            LET aspect_ratio ==
                    FlDiv(Rat(metadata.width, 1), Rat(metadata.height, 1))
            IN  \/ metadata.unrelated_text_length
                      < base_text_length - text_length_threshold
                \/ metadata.unrelated_text_length
                      > base_text_length + text_length_threshold
                \/ FLt(aspect_ratio,
                       FlSub(base_aspect_ratio, aspect_ratio_threshold))
                \/ FLt(FlAdd(base_aspect_ratio, aspect_ratio_threshold),
                       aspect_ratio)
        RECURSIVE loop(_, _)
        loop(i, layouts) ==
            IF i > Len(annfile.ann[key])
            THEN [raised |-> "none", layouts |-> layouts]
            ELSE IF skipped(annfile.ann[key][i]) THEN loop(i + 1, layouts)
            ELSE LET layout ==
                         _generate_layout_from_metadata(annfile.ann[key][i])
                     adjusted == adjust(layout, base_width, base_height)
                 IN  IF ~do_adjust THEN loop(i + 1, Append(layouts, layout))
                     ELSE IF adjusted.raised
                     THEN [raised |-> "ZeroDivisionError", layouts |-> <<>>]
                     ELSE loop(i + 1, Append(layouts, adjusted.self))
    IN  IF ~annfile.exists
        THEN [raised |-> "FileNotFoundError", layouts |-> <<>>]
        ELSE IF ~annfile.isfile
        THEN [raised |-> "IsADirectoryError", layouts |-> <<>>]
        ELSE IF key \notin DOMAIN annfile.ann
        THEN [raised |-> "ValueError", layouts |-> <<>>]
        ELSE loop(1, <<>>)

\* min(x1, keypoint[0]) where x1 starts as float('inf')
MinFromInf(x1, v) == IF x1 = Inf THEN v ELSE FMin(x1, v)

\* the box around the keypoints of a person other than (0, 0), before int():
\* <<x1, y1, x2, y2>> after the first i keypoints
RECURSIVE KeypointBox(_, _)
KeypointBox(pose_keypoints_2d, i) ==
    IF i = 0 THEN <<Inf, Inf, Zero, Zero>>
    ELSE LET box      == KeypointBox(pose_keypoints_2d, i - 1)
             keypoint == pose_keypoints_2d[i]
         IN  IF keypoint[1] = Zero /\ keypoint[2] = Zero THEN box
             ELSE <<MinFromInf(box[1], keypoint[1]),
                    MinFromInf(box[2], keypoint[2]),
                    FMax(box[3], keypoint[1]), FMax(box[4], keypoint[2])>>

\* raw_bboxes after the first i people; int(float('inf')) raises OverflowError
RECURSIVE RawBboxes(_, _)
RawBboxes(people, i) ==
    IF i = 0 THEN [raised |-> FALSE, raw_bboxes |-> <<>>]
    ELSE LET before == RawBboxes(people, i - 1)
             box    == KeypointBox(people[i], Len(people[i]))
         IN  IF before.raised THEN before
             ELSE IF people[i] = <<>> THEN before
             ELSE IF box[1] = Inf \/ box[2] = Inf
             THEN [raised |-> TRUE, raw_bboxes |-> <<>>]
             ELSE [raised |-> FALSE,
                   raw_bboxes |-> Append(before.raw_bboxes,
                                         [k \in 1..4 |-> FInt(box[k])])]

\* a box stays in `cleaned`: at least 30 wide and high
Usable(b) ==
    /\ ~(b[3] - b[1] < 30 \/ b[4] - b[2] < 30)
    /\ ~(b[3] <= b[1] \/ b[4] <= b[2])

\* controlnet2bboxes(controlnet_results): the cleaned boxes, or the fallback
\* box if there is none
controlnet2bboxes(controlnet_results) ==
    LET width   == controlnet_results.canvas_width
        height  == controlnet_results.canvas_height
        raw     == RawBboxes(controlnet_results.people,
                             Len(controlnet_results.people))
        cleaned == SelectSeq(raw.raw_bboxes, Usable)
    IN  IF raw.raised THEN [raised |-> TRUE, bboxes |-> <<>>]
        ELSE IF cleaned = <<>>
        THEN [raised |-> FALSE,
              bboxes |-> <<<<width \div 3, height \div 3,
                             width \div 2, height \div 2>>>>]
        ELSE [raised |-> FALSE, bboxes |-> cleaned]

\* final_score = (sim * 100) + (c_score * 50) - geom; the scores of the
\* model are floats for which the three operations are exact
final_score(sim, c_score, geom) ==
    FSub(FAdd(FMul(sim, Rat(100, 1)), FMul(c_score, Rat(50, 1))), geom)

\* no winner: None in src/src/pipeline.py, a record of None in src/pipeline1.py;
\* None is written -1
NoWinner == [variation_id |-> -1, rank |-> -1]

\* the scoring loop of main in src/src/pipeline.py over the variations of
\* panel_entry: the final scores given to the options, best_score and
\* winner_info at the end; a variation is scored whether its image exists
\* or not
main_scoring(panel_entry) ==
    LET RECURSIVE options(_, _, _)
        options(var, o, acc) ==
            IF o > Len(var.layout_options) THEN acc
            ELSE LET layout_opt == var.layout_options[o]
                     score == final_score(layout_opt.sim_score,
                                          var.c_score,
                                          layout_opt.geom_penalty)
                 IN  options(var, o + 1,
                        [final_scores |-> Append(acc.final_scores, score),
                         best_score |-> IF FLt(acc.best_score, score)
                                        THEN score ELSE acc.best_score,
                         winner |-> IF FLt(acc.best_score, score)
                                    THEN [variation_id |-> var.variation_id,
                                          rank |-> layout_opt.rank]
                                    ELSE acc.winner])
        RECURSIVE variations(_, _)
        variations(v, acc) ==
            IF v > Len(panel_entry.variations) THEN acc
            ELSE variations(v + 1, options(panel_entry.variations[v], 1, acc))
    IN  variations(1, [final_scores |-> <<>>, best_score |-> Rat(-9999, 1),
                       winner |-> NoWinner])

\* the scoring loop of run_offline_pipeline in src/pipeline1.py: a variation
\* whose image file does not exist is passed over, best_score starts at -1e9
run_offline_pipeline_scoring(panel_entry) ==
    LET RECURSIVE options(_, _, _)
        options(var, o, acc) ==
            IF o > Len(var.layout_options) THEN acc
            ELSE LET layout_opt == var.layout_options[o]
                     score == final_score(layout_opt.sim_score,
                                          var.c_score,
                                          layout_opt.geom_penalty)
                 IN  options(var, o + 1,
                        [final_scores |-> Append(acc.final_scores, score),
                         best_score |-> IF FLt(acc.best_score, score)
                                        THEN score ELSE acc.best_score,
                         winner |-> IF FLt(acc.best_score, score)
                                    THEN [variation_id |-> var.variation_id,
                                          rank |-> layout_opt.rank]
                                    ELSE acc.winner])
        RECURSIVE variations(_, _)
        variations(v, acc) ==
            IF v > Len(panel_entry.variations) THEN acc
            ELSE IF ~panel_entry.variations[v].image_exists
            THEN variations(v + 1, acc)
            ELSE variations(v + 1, options(panel_entry.variations[v], 1, acc))
    IN  variations(1, [final_scores |-> <<>>,
                       best_score |-> Rat(-1000000000, 1),
                       winner |-> NoWinner])

----------------------------------------------------------------------------
(* State machine of the pipeline stages *)

\* a layout of one element whose box ends at the far corner of the canvas
CornerLayout(width, height, near) ==
    MangaLayout("page.png", width, height,
                <<<<near * (width - 1), near * (height - 1), width, height>>>>,
                10)

\* layout.adjust(base_width, base_height); `original` keeps the layout as
\* it was before the call
AdjustCalls ==
    {[op |-> "adjust", pc |-> "start",
      self |-> CornerLayout(size[1], size[2], near),
      original |-> CornerLayout(size[1], size[2], near),
      base_width |-> base[1], base_height |-> base[2]] :
        size \in (1..MaxCanvas) \X (1..MaxCanvas),
        base \in (1..MaxCanvas) \X (1..MaxCanvas),
        near \in {0, 1}}

\* the records of a corpus entry differ in their text length and canvas
TextLengths == {8, 10, 13}
CanvasSizes == {<<2, 4>>, <<3, 4>>, <<5, 4>>}

\* the i-th record of an entry: one speaker whose box is the whole canvas
Metadata(i, unrelated_text_length, size) ==
    [image_path |-> ToString(i) \o ".png",
     width |-> size[1], height |-> size[2],
     speaker_objects |-> <<<<0, 0, size[1], size[2]>>>>,
     non_speaker_objects |-> <<>>,
     unrelated_text_length |-> unrelated_text_length]

\* annotation files with the one signature "1_1", of 0 to MaxRecords records
Corpora ==
    UNION {{("1_1" :> [i \in 1..n |-> Metadata(i, pick[i][1], pick[i][2])]) :
               pick \in [1..n -> TextLengths \X CanvasSizes]} :
           n \in 0..MaxRecords}

\* from_condition on a regular file, for a signature with or without an
\* entry, and on a path that does not exist or is no regular file
FromConditionCalls ==
    {[op |-> "from_condition", pc |-> "start",
      annfile |-> [exists |-> TRUE, isfile |-> TRUE, ann |-> ann],
      num_speakers |-> num_speakers, num_non_speakers |-> 1,
      base_text_length |-> 10, text_length_threshold |-> query[1],
      base_width |-> query[2], base_height |-> 4,
      aspect_ratio_threshold |-> query[3], do_adjust |-> query[4],
      result |-> [raised |-> "none", layouts |-> <<>>]] :
        ann \in Corpora, num_speakers \in {1, 2},
        query \in {0, 2} \X {2, 4} \X {Fl(Rat(1, 4)), Fl(Rat(1, 5))}
                     \X BOOLEAN}
    \cup
    {[op |-> "from_condition", pc |-> "start",
      annfile |-> [exists |-> exists, isfile |-> FALSE,
                   ann |-> ("1_1" :> <<>>)],
      num_speakers |-> 1, num_non_speakers |-> 1,
      base_text_length |-> 10, text_length_threshold |-> 2,
      base_width |-> 4, base_height |-> 4,
      aspect_ratio_threshold |-> Fl(Rat(1, 4)), do_adjust |-> TRUE,
      result |-> [raised |-> "none", layouts |-> <<>>]] :
        exists \in BOOLEAN}

\* the poses a person can have: no keypoints, only undetected ones (0, 0),
\* a figure, a figure too narrow, a single keypoint, a figure at half pixels
Poses ==
    {<<>>,
     <<<<Zero, Zero>>, <<Zero, Zero>>>>,
     <<<<Rat(100, 1), Rat(100, 1)>>, <<Zero, Zero>>,
       <<Rat(200, 1), Rat(300, 1)>>>>,
     <<<<Rat(100, 1), Rat(100, 1)>>, <<Rat(120, 1), Rat(300, 1)>>>>,
     <<<<Rat(50, 1), Rat(60, 1)>>>>,
     <<<<Rat(301, 2), Rat(20, 1)>>, <<Rat(181, 2), Rat(50, 1)>>,
       <<Rat(121, 1), Rat(99, 2)>>>>}

\* controlnet2bboxes on the result of a detection with 0 to MaxPeople people
Controlnet2bboxesCalls ==
    {[op |-> "controlnet2bboxes", pc |-> "start",
      controlnet_results |-> [canvas_width |-> canvas[1],
                              canvas_height |-> canvas[2],
                              people |-> people],
      result |-> [raised |-> FALSE, bboxes |-> <<>>]] :
        canvas \in {<<512, 512>>, <<640, 480>>},
        people \in SeqsUpTo(Poses, MaxPeople)}

\* a layout option: its rank among the options of the variation, the
\* similarity of its template and its geometric penalty
LayoutOption(rank, sim_score, geom_penalty) ==
    [rank |-> rank, sim_score |-> sim_score, geom_penalty |-> geom_penalty]

\* the options a variation can have: none; two with the same final score;
\* a better one after a worse one; options with a very high penalty
OptionLists ==
    {<<>>,
     <<LayoutOption(0, One, Rat(50, 1)), LayoutOption(1, Rat(1, 2), Zero)>>,
     <<LayoutOption(0, Rat(1, 2), Zero), LayoutOption(1, One, Zero)>>,
     <<LayoutOption(0, Rat(1, 2), Rat(10100, 1))>>,
     <<LayoutOption(0, One, Rat(10100, 1)),
       LayoutOption(1, Rat(1, 2), Rat(10100, 1))>>}

\* panel_entry of scores.json: up to MaxVariations variations, each with its
\* options, the score calculate_clip_score gives its image and whether the
\* file of the image exists
PanelEntries ==
    {[variations |->
         [j \in DOMAIN pick |->
             [variation_id |-> j - 1, layout_options |-> pick[j][1],
              c_score |-> pick[j][2], image_exists |-> pick[j][3]]]] :
        pick \in UNION {[1..n -> OptionLists \X {Zero, Rat(1, 2)} \X BOOLEAN] :
                           n \in 0..MaxVariations}}

\* the scoring of one panel by src/src/pipeline.py or by src/pipeline1.py
SelectWinnerCalls ==
    [op : {"main", "run_offline_pipeline"}, pc : {"start"},
     panel_entry : PanelEntries, result : {<<>>}]

InitPipeline ==
    /\ refs = [r \in RefIds |-> Layout(<<>>, 1, 1)]
    /\ call = NoCall
    /\ first = Unset
    /\ matrix = Zeros(0, 0)
    /\ solved = NoResult
    /\ roundtrip = NoRoundTrip
    /\ sampler = NoSampler
    /\ optimizer = NoOptimizer
    /\ pipeline \in AdjustCalls \cup FromConditionCalls
                    \cup Controlnet2bboxesCalls \cup SelectWinnerCalls

\* layout.adjust(base_width, base_height)
Adjust ==
    /\ pipeline.op = "adjust" /\ pipeline.pc = "start"
    /\ LET out == adjust(pipeline.self, pipeline.base_width,
                         pipeline.base_height)
       IN  pipeline' = [pipeline EXCEPT
                          !.pc = IF out.raised THEN "raised" ELSE "returned",
                          !.self = out.self]
    /\ UNCHANGED <<scoreVars, roundtrip, sampler, optimizer>>

\* from_condition(annfile, num_speakers, ..., adjust)
FromCondition ==
    /\ pipeline.op = "from_condition" /\ pipeline.pc = "start"
    /\ LET out == from_condition(pipeline.annfile, pipeline.num_speakers,
                                 pipeline.num_non_speakers,
                                 pipeline.base_text_length,
                                 pipeline.text_length_threshold,
                                 pipeline.base_width, pipeline.base_height,
                                 pipeline.aspect_ratio_threshold,
                                 pipeline.do_adjust)
       IN  pipeline' = [pipeline EXCEPT
                          !.pc = IF out.raised = "none" THEN "returned"
                                 ELSE "raised",
                          !.result = out]
    /\ UNCHANGED <<scoreVars, roundtrip, sampler, optimizer>>

\* bboxes = controlnet2bboxes(openpose_result)
Controlnet2bboxes ==
    /\ pipeline.op = "controlnet2bboxes" /\ pipeline.pc = "start"
    /\ LET out == controlnet2bboxes(pipeline.controlnet_results)
       IN  pipeline' = [pipeline EXCEPT
                          !.pc = IF out.raised THEN "raised" ELSE "returned",
                          !.result = out]
    /\ UNCHANGED <<scoreVars, roundtrip, sampler, optimizer>>

\* src/src/pipeline.py scores the options of a panel and records its winner
MainSelectWinner ==
    /\ pipeline.op = "main" /\ pipeline.pc = "start"
    /\ pipeline' = [pipeline EXCEPT
                      !.pc = "scored",
                      !.result = main_scoring(pipeline.panel_entry)]
    /\ UNCHANGED <<scoreVars, roundtrip, sampler, optimizer>>

\* src/pipeline1.py scores the options of a panel and records its winner
RunOfflinePipelineSelectWinner ==
    /\ pipeline.op = "run_offline_pipeline" /\ pipeline.pc = "start"
    /\ pipeline' = [pipeline EXCEPT
                      !.pc = "scored",
                      !.result = run_offline_pipeline_scoring(
                                     pipeline.panel_entry)]
    /\ UNCHANGED <<scoreVars, roundtrip, sampler, optimizer>>

NextPipeline ==
    \/ Adjust
    \/ FromCondition
    \/ Controlnet2bboxes
    \/ MainSelectWinner
    \/ RunOfflinePipelineSelectWinner

SpecPipeline == InitPipeline /\ [][NextPipeline]_vars

----------------------------------------------------------------------------
(* Claims about the pipeline stages *)

\* x * base_width / original_width for the x coordinates of a box of the
\* original layout and y * base_height / original_height for the others
Stretched(bbox, k) ==
    IF k \in {1, 3}
    THEN Rat(bbox[k] * pipeline.base_width, pipeline.original.width)
    ELSE Rat(bbox[k] * pipeline.base_height, pipeline.original.height)

\* C30 as stated: adjust sets width and height to the base size and, when
\* no letterboxed dimension is 0, every x coordinate becomes
\* trunc(x * base_width / original_width) and every y coordinate
\* trunc(y * base_height / original_height), as one direct stretch gives them.
C30_AdjustIsDirectStretch ==
    (pipeline.op = "adjust" /\ pipeline.pc = "returned") =>
       /\ pipeline.self.width = pipeline.base_width
       /\ pipeline.self.height = pipeline.base_height
       /\ \A e \in DOMAIN pipeline.self.elements : \A k \in 1..4 :
             pipeline.self.elements[e][k] =
                FInt(Stretched(pipeline.original.elements[e], k))

\* a coordinate that adjust set one below trunc(x * base / original)
OneLess(e, k) ==
    /\ Stretched(pipeline.original.elements[e], k)[2] = 1
    /\ pipeline.self.elements[e][k] =
          FInt(Stretched(pipeline.original.elements[e], k)) - 1

\* C30 amended: adjust sets width and height to the base size and, when no
\* letterboxed dimension is 0, every coordinate becomes the truncated direct
\* stretch, trunc(x * base_width / original_width) or
\* trunc(y * base_height / original_height), or one less than it where the
\* stretched coordinate is a whole number, the product of the two scales
\* having been rounded below the direct scale.
C30_AdjustWithinRounding ==
    (pipeline.op = "adjust" /\ pipeline.pc = "returned") =>
       /\ pipeline.self.width = pipeline.base_width
       /\ pipeline.self.height = pipeline.base_height
       /\ \A e \in DOMAIN pipeline.self.elements : \A k \in 1..4 :
             \/ pipeline.self.elements[e][k] =
                   FInt(Stretched(pipeline.original.elements[e], k))
             \/ OneLess(e, k)

\* a box whose far corner was set one pixel inside the new canvas
C30_Witness ==
    /\ pipeline.op = "adjust" /\ pipeline.pc = "returned"
    /\ pipeline.original.width # pipeline.base_width
    /\ OneLess(1, 3) \/ OneLess(1, 4)
    /\ pipeline.self.elements[1][1] =
          FInt(Stretched(pipeline.original.elements[1], 1))

\* the signature key of a call of from_condition
SignatureKey ==
    ToString(pipeline.num_speakers) \o "_"
        \o ToString(pipeline.num_non_speakers)

\* the records of the signature's entry
Entry == pipeline.annfile.ann[SignatureKey]

\* the text length and the aspect ratio of a record are within the
\* thresholds of the base values, the ends included; the ends are the floats
\* base_aspect - threshold and base_aspect + threshold
WithinThresholds(metadata) ==
    /\ metadata.unrelated_text_length
          \in (pipeline.base_text_length - pipeline.text_length_threshold)
              ..(pipeline.base_text_length + pipeline.text_length_threshold)
    /\ FLe(FlSub(FlDiv(Rat(pipeline.base_width, 1),
                       Rat(pipeline.base_height, 1)),
                 pipeline.aspect_ratio_threshold),
           FlDiv(Rat(metadata.width, 1), Rat(metadata.height, 1)))
    /\ FLe(FlDiv(Rat(metadata.width, 1), Rat(metadata.height, 1)),
           FlAdd(FlDiv(Rat(pipeline.base_width, 1),
                       Rat(pipeline.base_height, 1)),
                 pipeline.aspect_ratio_threshold))

\* the places in the entry of the records within the thresholds
Kept == {i \in DOMAIN Entry : WithinThresholds(Entry[i])}

\* C21: from_condition raises, and returns no list, when the annotation
\* file does not exist, when the path is not a regular file and when the
\* corpus has no entry for the key "{num_speakers}_{num_non_speakers}"; when
\* the key exists it raises no missing-signature error, and returns the
\* empty list if every record is filtered out.
C21_LookupFailuresAreErrors ==
    (pipeline.op = "from_condition" /\ pipeline.pc # "start") =>
       /\ ~pipeline.annfile.exists =>
             /\ pipeline.pc = "raised"
             /\ pipeline.result.raised = "FileNotFoundError"
       /\ (pipeline.annfile.exists /\ ~pipeline.annfile.isfile) =>
             /\ pipeline.pc = "raised"
             /\ pipeline.result.raised = "IsADirectoryError"
       /\ (pipeline.annfile.isfile
              /\ SignatureKey \notin DOMAIN pipeline.annfile.ann) =>
             /\ pipeline.pc = "raised"
             /\ pipeline.result.raised = "ValueError"
       /\ pipeline.pc = "raised" => pipeline.result.layouts = <<>>
       /\ (pipeline.annfile.isfile
              /\ SignatureKey \in DOMAIN pipeline.annfile.ann) =>
             /\ pipeline.result.raised # "ValueError"
             /\ Kept = {} =>
                   /\ pipeline.pc = "returned"
                   /\ pipeline.result.layouts = <<>>

\* an entry of two records which are both filtered out
C21_Witness ==
    /\ pipeline.op = "from_condition" /\ pipeline.pc = "returned"
    /\ SignatureKey \in DOMAIN pipeline.annfile.ann
    /\ Len(Entry) = 2 /\ Kept = {}
    /\ pipeline.result.layouts = <<>>

\* the place in the entry of the record behind the j-th layout returned
Origin(j) ==
    CHOOSE i \in Kept : Cardinality({k \in Kept : k < i}) = j - 1

\* C22: the list from_condition returns holds, in the order of the corpus,
\* the records of the signature's entry whose unrelated_text_length is in
\* [base_text_length - text_length_threshold, base_text_length +
\* text_length_threshold] and whose width / height is in [base_aspect -
\* aspect_ratio_threshold, base_aspect + aspect_ratio_threshold], the ends
\* included, and no other; each as the layout of its record, adjusted to the
\* base size if adjust is set.
C22_CorpusFilter ==
    (pipeline.op = "from_condition" /\ pipeline.pc = "returned") =>
       /\ Len(pipeline.result.layouts) = Cardinality(Kept)
       /\ \A j \in DOMAIN pipeline.result.layouts :
             /\ pipeline.result.layouts[j].image_path
                   = Entry[Origin(j)].image_path
             /\ pipeline.result.layouts[j].unrelated_text_length
                   = Entry[Origin(j)].unrelated_text_length
             /\ IF pipeline.do_adjust
                THEN /\ pipeline.result.layouts[j].width = pipeline.base_width
                     /\ pipeline.result.layouts[j].height
                           = pipeline.base_height
                ELSE /\ pipeline.result.layouts[j].width
                           = Entry[Origin(j)].width
                     /\ pipeline.result.layouts[j].height
                           = Entry[Origin(j)].height
                     /\ pipeline.result.layouts[j].elements
                           = Entry[Origin(j)].speaker_objects

\* the second record is kept at the upper end of the interval of the aspect
\* ratios and at the lower end of that of the text lengths, the first dropped
C22_Witness ==
    /\ pipeline.op = "from_condition" /\ pipeline.pc = "returned"
    /\ Len(Entry) = 2 /\ Kept = {2}
    /\ Entry[2].unrelated_text_length
          = pipeline.base_text_length - pipeline.text_length_threshold
    /\ pipeline.text_length_threshold > 0
    /\ Rat(Entry[2].width, Entry[2].height)
          = FAdd(Rat(pipeline.base_width, pipeline.base_height),
                 pipeline.aspect_ratio_threshold)
    /\ Len(pipeline.result.layouts) = 1
    /\ pipeline.result.layouts[1].image_path = "2.png"

\* the fallback box of a canvas
FallbackBox ==
    <<pipeline.controlnet_results.canvas_width \div 3,
      pipeline.controlnet_results.canvas_height \div 3,
      pipeline.controlnet_results.canvas_width \div 2,
      pipeline.controlnet_results.canvas_height \div 2>>

\* the box of a person, truncated, if it has a keypoint other than (0, 0)
\* and is at least 30 wide and high
PersonBoxes ==
    {b \in {[k \in 1..4 |->
               FInt(KeypointBox(pipeline.controlnet_results.people[i],
                                Len(pipeline.controlnet_results.people[i]))[k])] :
            i \in {j \in DOMAIN pipeline.controlnet_results.people :
                      \E k \in DOMAIN pipeline.controlnet_results.people[j] :
                         pipeline.controlnet_results.people[j][k]
                            # <<Zero, Zero>>}} :
        b[3] - b[1] >= 30 /\ b[4] - b[2] >= 30}

\* C24: controlnet2bboxes never raises and returns a list that is not empty,
\* of boxes with x1 < x2 and y1 < y2; each is the box of a person that is at
\* least 30 wide and high, or the list is the single fallback box
\* [width // 3, height // 3, width // 2, height // 2], which is what is
\* returned when no person has a usable box, also when a person has only
\* (0, 0) keypoints.
C24_NeverRaisesNeverEmpty ==
    (pipeline.op = "controlnet2bboxes" /\ pipeline.pc # "start") =>
       /\ pipeline.pc = "returned"
       /\ pipeline.result.bboxes # <<>>
       /\ \A k \in DOMAIN pipeline.result.bboxes :
             /\ pipeline.result.bboxes[k][1] < pipeline.result.bboxes[k][3]
             /\ pipeline.result.bboxes[k][2] < pipeline.result.bboxes[k][4]
       /\ IF PersonBoxes = {}
          THEN pipeline.result.bboxes = <<FallbackBox>>
          ELSE \A k \in DOMAIN pipeline.result.bboxes :
                  pipeline.result.bboxes[k] \in PersonBoxes

\* the options of a panel in the order of the loops: variation by variation,
\* rank by rank
RECURSIVE OptionsInOrder(_, _)
OptionsInOrder(panel_entry, v) ==
    IF v > Len(panel_entry.variations) THEN <<>>
    ELSE LET var == panel_entry.variations[v]
         IN  [o \in 1..Len(var.layout_options) |->
                 [variation_id |-> var.variation_id,
                  rank |-> var.layout_options[o].rank,
                  score |-> FSub(FAdd(FMul(var.layout_options[o].sim_score,
                                           Rat(100, 1)),
                                      FMul(var.c_score, Rat(50, 1))),
                                 var.layout_options[o].geom_penalty)]]
             \o OptionsInOrder(panel_entry, v + 1)

\* C23: when a panel has been scored, every layout option of every variation
\* has final_score = sim_score*100 + clip_score*50 - geom_penalty; a panel
\* with at least one option has a winner; the winner is an option of the
\* greatest final_score, and no option before it in variation order, then
\* rank order, has the same final_score
C23_WinnerIsFirstBest ==
    (pipeline.op \in {"main", "run_offline_pipeline"} /\ pipeline.pc = "scored")
    => LET all == OptionsInOrder(pipeline.panel_entry, 1)
           winner == pipeline.result.winner
       IN  /\ pipeline.result.final_scores = [k \in 1..Len(all) |-> all[k].score]
           /\ all # <<>> => winner # NoWinner
           /\ winner # NoWinner =>
                 \E k \in 1..Len(all) :
                     /\ winner = [variation_id |-> all[k].variation_id,
                                  rank |-> all[k].rank]
                     /\ \A m \in 1..Len(all) : FLe(all[m].score, all[k].score)
                     /\ \A m \in 1..(k - 1) : FLt(all[m].score, all[k].score)

====
